---- MODULE Spec2Model ----
(***************************************************************************)
(* Model of the mock-examination client: the Test page (timed attempt,     *)
(* navigation, scoring and hand-off), the Results page (persisting the     *)
(* TestResults row) and the community vote toggle of CommunityPage /       *)
(* PostDetailPage against the votes table.                                 *)
(***************************************************************************)
EXTENDS Integers, Naturals, Sequences, FiniteSets, TLC

(* ------------------------------ bounds -------------------------------- *)
\* largest number of questions the bank holds for the launched subject
MaxBank == 2
\* the wall clock (Date.now()) advances in steps of 1/TicksPerSecond second
TicksPerSecond == 2
\* last value of the wall clock, in clock steps
MaxClock == 3
\* how many times the save effect of the Results page may run again
MaxReruns == 2
\* how many hand-offs to the Results page one attempt is followed for
MaxHandoffs == 2
\* interval callbacks that fit into one exit transition of the Test page
MaxExitTicks == 1
\* largest question count of the attempts whose scoring is enumerated
MaxScored == 3
\* number of vote requests followed, over all pages
MaxRequests == 3
\* statements served by the community tables
MaxDbOps == 4
\* replies stored for the post shown
MaxReplies == 12
\* loadReplies calls that fail
MaxReplyErrors == 2
\* steps of time on the profile page
MaxTimeSteps == 2
\* times /results is opened without a hand-off
MaxEntries == 1
\* rows of a subject in the Questions table
MaxMatching == 22
\* page components mounted in one run
MaxVisits == 3
\* replies submitted in one run
MaxPosted == 1
\* replies submitted while the reply list is open
MaxReplyPosts == 2
\* rows of the user in each table when the account is deleted
MaxOwned == 1

(* -------------------------- program constants ------------------------- *)
\* Landing.tsx:570  Math.round(selectedQuestions.length * 63)
SecondsPerQuestion == 63
\* Landing.tsx:566  shuffledQuestions.slice(0, 20)
MaxQuestions == 20

\* a hole of a JavaScript array / a missing value (undefined)
Undef == -1
\* location.state of a navigation that carries no payload
NoState == [total |-> Undef]
\* the authenticated user (useAuth().user.id)
CurrentUser == "u1"

\* a second user, whose votes are rows of the table but who does not act
OtherUser == "u2"
Users == {CurrentUser, OtherUser}

Options == {"A", "B"}

\* Question bank fixture: the question with id q has correct_answer
\* CorrectAnswer(q); the rows 2, 5, ... have a null correct_answer, which
\* fetchQuestions turns into "" (item.correct_answer || "").
CorrectAnswer(q) == IF q % 3 = 1 THEN "A" ELSE IF q % 3 = 2 THEN "" ELSE "B"

VARIABLES
  \* ---- router / App.tsx
  route,               \* current location.pathname: "test", "results", "dashboard"
  locationState,       \* current location.state
  testMounted,         \* the Test component is alive (also while its exit transition runs)
  resultsMounted,      \* the Results component is alive
  exitTicks,           \* interval callbacks run since the Test page started to exit
  \* ---- Test component state (Landing.tsx:484-490)
  questions,           \* sequence of question ids
  currentQuestionIndex,
  answers,             \* function: answered question id -> option text
  loading,
  timeLeft,
  questionStartTime,
  timePerQuestion,     \* JavaScript array, holes are Undef
  \* ---- environment
  now,                 \* Date.now() in clock steps
  \* ---- Results component / backend
  TestResults,         \* rows of the TestResults table, in insertion order
  saveRequests,        \* every insert the save effect has issued, in order
  effectRuns,          \* how many times the save effect has run again
  \* ---- history (observations only, never read by the program)
  handoffs,            \* every navigate("/results", {state}) issued, in order
  submitLog,           \* for every hand-off: who triggered it and the timer then
  \* ---- community: backend
  votes,               \* rows of the votes table
  nextVoteId,          \* the SERIAL sequence of votes.id
  \* ---- community: one CommunityPage and one PostDetailPage of the current user
  inflight,            \* per page: the handleVote call in progress
  voteLoading,         \* per page: useState voteLoading
  postsLoading,        \* per page: useState loading (the page shows a spinner)
  reload,              \* per page: the loadPosts / loadPost call in progress
  display,             \* per page: the posts as rendered (upvotes, downvotes, user_vote)
  \* ---- community: history
  started,             \* vote requests started so far
  events,              \* backend calls of vote requests served so far
  reqLog,              \* the completed vote requests, in order of completion
  lastWriter,          \* the page whose vote request wrote last
  \* ---- community: backend tables with the point triggers
  postRows,            \* rows of the posts table
  replyRows,           \* rows of the replies table
  user_points,         \* user_points.points per user, Undef when the user has no row
  nextPostId,          \* the SERIAL sequence of posts.id
  nextReplyId,         \* the SERIAL sequence of replies.id
  dbOps,               \* statements served so far
  upVoters,            \* history: the (voter, post) pairs that have stored an up vote
  \* ---- community: reply list of PostDetailPage
  replyTotal,          \* number of replies stored for the post (ids 1..replyTotal by created_at)
  replies,             \* useState replies: the reply ids in memory, in order
  repliesPage,
  hasMoreReplies,
  repliesLoading,
  loadingMore,
  replyReq,            \* the loadReplies calls in flight
  replyErrors,         \* failed loadReplies calls so far
  pageLog,             \* history: every page delivered, with the hasMore it set
  \* ---- ProfilePage, open in two tabs of the current user
  profileRow,          \* the user's row of the profiles table
  tabProfile,          \* per tab: useState profile, the row as last loaded
  formName,            \* per tab: useState displayName (the form field)
  profileToast,        \* per tab: the last notification shown
  day,                 \* new Date() in whole days
  timeSteps,           \* how often time has been advanced
  \* ---- Results page opened without a hand-off (history)
  entryLog,            \* per such entry: the properties of location.state and what the page did
  \* ---- account deletion on the profile page
  ownedRows,           \* table -> number of rows of the signed-in user
  signedIn,            \* useAuth().user is set
  deleting,            \* ProfilePage state
  deleteStep,          \* position inside handleDeleteAccount
  deleteErrors,        \* tables whose delete of this run returned an error
  deleteToasts,        \* titles of the toasts of this run
  \* ---- community: vote requests the backend fails
  lookupFailed,        \* per page: the lookup of the request in flight returned an error
  failLog,             \* the vote requests with a failed call, in order of completion
  \* ---- Test page: the launch
  matching,            \* rows the select of fetchQuestions returned, Undef before it resolves
  startedAt,           \* Date.now() when fetchQuestions started the per-question clock
  \* ---- community: the other copy of the detail page (part_003)
  legacyPost,          \* useState post of that copy: what it renders for DetailPost
  \* ---- community: the post list of CommunityPage (CommunityPage.tsx:32-37)
  listPosts,           \* useState posts: the ids of the posts as listed, in order
  listLoading,         \* useState loading of the list (the page shows only a spinner)
  searchQuery,         \* text of the search box, a sequence of characters
  subjectFilter,       \* "all" or a subject
  sortBy,              \* "newest", "oldest" or "most_voted"
  listReq,             \* the state the loadPosts call in progress has captured
  listFetched,         \* history: the last loadPosts call to return has delivered rows
  \* ---- leaving a page while its requests are in flight
  pathname,            \* location.pathname: "/community/post/1", "/dashboard" or "/community"
  instance,            \* number of the page component now mounted (pages mounted so far)
  calls,               \* requests and timers pending: which, and of which page component
  detailLoading,       \* PostDetailPage useState loading
  detailPost,          \* PostDetailPage useState post: "none" or "shown"
  detailReplies,       \* PostDetailPage useState replies: "none", "loaded" or "appended"
  replyLoading,        \* PostDetailPage useState replyLoading
  loadingSubjects,     \* Dashboard useState loadingSubjects
  subjects,            \* Dashboard useState subjects: "fallback" or "loaded"
  toastCount,          \* toasts shown so far by the Toaster at the root of the app
  posted,              \* replies submitted so far
  \* ---- community: posting a reply on PostDetailPage
  replySending,        \* useState replyLoading: handleReply is waiting for its insert
  insertedId,          \* id of the row the pending insert has stored, 0 before it is stored
  reconcileTimers,     \* timers of handleReply that have not fired yet
  replyPosts           \* replies submitted so far

testVars == <<questions, currentQuestionIndex, answers, loading, timeLeft,
              questionStartTime, timePerQuestion>>
routerVars == <<route, locationState, testMounted, resultsMounted, exitTicks>>
resultVars == <<TestResults, saveRequests, effectRuns>>
histVars == <<handoffs, submitLog>>
attemptVars == <<testVars, routerVars, resultVars, histVars, now>>
voteVars == <<votes, nextVoteId, inflight, voteLoading, postsLoading, reload,
              display, started, events, reqLog, lastWriter>>
pointVars == <<postRows, replyRows, user_points, nextPostId, nextReplyId, dbOps,
               upVoters>>
replyVars == <<replyTotal, replies, repliesPage, hasMoreReplies, repliesLoading,
               loadingMore, replyReq, replyErrors, pageLog>>
profileVars == <<profileRow, tabProfile, formName, profileToast, day, timeSteps>>
entryVars == <<entryLog>>
deleteVars == <<ownedRows, signedIn, deleting, deleteStep, deleteErrors, deleteToasts>>
failVars == <<lookupFailed, failLog>>
launchVars == <<matching, startedAt>>
ownVars == <<legacyPost>>
listVars == <<listPosts, listLoading, searchQuery, subjectFilter, sortBy, listReq,
              listFetched>>
leaveVars == <<pathname, instance, calls, detailLoading, detailPost, detailReplies, replyLoading, loadingSubjects, subjects, toastCount, posted>>
postingVars == <<replySending, insertedId, reconcileTimers, replyPosts>>
extVars == <<pointVars, replyVars, profileVars, entryVars,
             deleteVars, failVars, launchVars, ownVars, listVars, leaveVars, postingVars>>
\* what the steps of one part of the model leave alone in the other parts
exceptPoints == <<replyVars, profileVars, entryVars, deleteVars,
   failVars, launchVars, ownVars, listVars, leaveVars, postingVars>>
exceptReplies == <<pointVars, profileVars, entryVars, deleteVars,
   failVars, launchVars, ownVars, listVars, leaveVars, postingVars>>
exceptProfile == <<pointVars, replyVars, entryVars, deleteVars,
   failVars, launchVars, ownVars, listVars, leaveVars, postingVars>>
exceptEntry == <<pointVars, replyVars, profileVars, deleteVars,
   failVars, launchVars, ownVars, listVars, leaveVars, postingVars>>
exceptDelete == <<pointVars, replyVars, profileVars, entryVars,
   failVars, launchVars, ownVars, listVars, leaveVars, postingVars>>
exceptFail == <<pointVars, replyVars, profileVars, entryVars,
   deleteVars, launchVars, ownVars, listVars, leaveVars, postingVars>>
exceptLaunch == <<pointVars, replyVars, profileVars, entryVars,
   deleteVars, failVars, ownVars, listVars, leaveVars, postingVars>>
exceptOwn == <<pointVars, replyVars, profileVars, entryVars,
   deleteVars, failVars, launchVars, listVars, leaveVars, postingVars>>
exceptList == <<pointVars, replyVars, profileVars, entryVars,
   deleteVars, failVars, launchVars, ownVars, leaveVars, postingVars>>
exceptLeave == <<pointVars, replyVars, profileVars, entryVars,
   deleteVars, failVars, launchVars, ownVars, listVars, postingVars>>
exceptPosting == <<pointVars, replyVars, profileVars, entryVars,
   deleteVars, failVars, launchVars, ownVars, listVars, leaveVars>>

(* ----------------------------- helpers -------------------------------- *)
\* Math.floor in the place of Math.round
MathRound_Floor(num, den) == num \div den

\* Math.round(num / den) for num >= 0, den > 0: halves round up
MathRound(num, den) == (2 * num + den) \div (2 * den)

Max(a, b) == IF a >= b THEN a ELSE b

\* (x || 0) for an array element
OrZero(x) == IF x = Undef THEN 0 ELSE x

\* arr[i] for a 0-based index i of a JavaScript array
ArrayGet(arr, i) == IF i + 1 <= Len(arr) THEN arr[i + 1] ELSE Undef

\* copy = [...arr]; copy[i] = v   (writing past the end leaves holes)
ArraySet(arr, i, v) ==
  [k \in 1..Max(Len(arr), i + 1) |->
     IF k = i + 1 THEN v ELSE IF k <= Len(arr) THEN arr[k] ELSE Undef]

\* Math.max(0, Math.round((now - questionStartTime) / 1000))
Elapsed == Max(0, MathRound(now - questionStartTime, TicksPerSecond))

\* all orders of the ids 1..c (what sort(() => Math.random() - 0.5) can give)
Shuffles(c) ==
  {s \in [1..c -> 1..c] : \A i, j \in 1..c : i # j => s[i] # s[j]}

\* a slice that takes every row
Slice_All(s, n) == s

\* arr.slice(0, n)
Slice(s, n) == IF Len(s) <= n THEN s ELSE SubSeq(s, 1, n)

(* ---------------------- Test page: scoring ---------------------------- *)
\* const userAnswer = answers[question.id] || ""
UserAnswer(q) == IF q \in DOMAIN answers THEN answers[q] ELSE ""

IsSkipped(q) == UserAnswer(q) = ""

\* IsCorrect without its test of isSkipped
IsCorrect_NoSkipTest(q) == UserAnswer(q) = CorrectAnswer(q)

IsCorrect(q) == ~IsSkipped(q) /\ UserAnswer(q) = CorrectAnswer(q)

\* questions.map(question => ({question, userAnswer, isCorrect, isSkipped}))
ResultItems ==
  [k \in 1..Len(questions) |->
     [question   |-> questions[k],
      userAnswer |-> UserAnswer(questions[k]),
      isCorrect  |-> IsCorrect(questions[k]),
      isSkipped  |-> IsSkipped(questions[k])]]

\* results.filter(r => r.isCorrect).length and results.filter(r => r.isSkipped).length
CountCorrect(results) == Cardinality({k \in 1..Len(results) : results[k].isCorrect})

CountSkipped(results) == Cardinality({k \in 1..Len(results) : results[k].isSkipped})

\* timePerQuestion[currentQuestionIndex] += elapsed on the array itself, so
\* that an evaluation starts from what the one before it has added
FinalTimes_InPlace ==
  ArraySet(timePerQuestion, currentQuestionIndex,
           (IF handoffs = <<>>
              THEN OrZero(ArrayGet(timePerQuestion, currentQuestionIndex))
              ELSE OrZero(ArrayGet(handoffs[Len(handoffs)].timePerQuestion,
                                   currentQuestionIndex)))
           + Elapsed)

\* the elapsed time of the current question added to a copy of timePerQuestion
FinalTimes ==
  ArraySet(timePerQuestion, currentQuestionIndex,
           OrZero(ArrayGet(timePerQuestion, currentQuestionIndex)) + Elapsed)

\* the state object handleSubmit passes to navigate("/results", {state})
SubmitPayload ==
  LET results      == ResultItems
      score        == CountCorrect(results)
      skippedCount == CountSkipped(results)
      wrongCount   == Len(results) - score - skippedCount
  IN  [results         |-> results,
       score           |-> score,
       total           |-> Len(questions),
       timePerQuestion |-> FinalTimes,
       skippedCount    |-> skippedCount,
       wrongCount      |-> wrongCount]

\* Test.handleSubmit, with by = "manual" (Submit button) or "timer" (countdown
\* effect); timeLeftNow is the timeLeft of the render that submits.  submitLog
\* notes who submitted, for a timer submission the timeLeft it ran at, and
\* whether the question set had loaded, the state handleSubmit read (inputs)
\* and its Date.now() (at)
HandleSubmit(by, timeLeftNow) ==
  /\ route' = "results"
  /\ locationState' = SubmitPayload
  /\ handoffs' = Append(handoffs, SubmitPayload)
  /\ submitLog' = Append(submitLog,
                    [by |-> by,
                     timerAt |-> IF by = "timer" THEN timeLeftNow ELSE Undef,
                     loaded |-> ~loading /\ Len(questions) > 0,
                     inputs |-> <<questions, answers, timePerQuestion,
                                  currentQuestionIndex, questionStartTime>>,
                     at |-> now])

\* the test view is rendered: past the loading spinner and the empty-set card
TestRendered == testMounted /\ ~loading /\ Len(questions) > 0

\* the user works on the attempt (answers, moves) while it is the current page
TestInteractive == TestRendered /\ route = "test"

(* ---------------------- Test page: operations ------------------------- *)
\* fetchQuestions from its shuffle on, with the shuffled rows of the select:
\* slice(0, 20), setQuestions, setTimeLeft, setQuestionStartTime, and in
\* finally setLoading(false)
SetQuestions(shuffled) ==
  LET selectedQuestions == Slice(shuffled, MaxQuestions) IN
  /\ questions' = selectedQuestions
  /\ timeLeft' = MathRound(Len(selectedQuestions) * SecondsPerQuestion, 1)
  /\ matching' = Len(shuffled)
  /\ questionStartTime' = now
  /\ startedAt' = now
  /\ loading' = FALSE
  /\ UNCHANGED <<currentQuestionIndex, answers, timePerQuestion, now>>
  /\ UNCHANGED <<routerVars, resultVars, histVars>>
  /\ UNCHANGED <<voteVars, exceptLaunch>>

\* fetchQuestions resolves with c >= 1 matching rows
FetchQuestionsOk ==
  /\ testMounted /\ loading
  /\ \E c \in 1..MaxBank : \E shuffled \in Shuffles(c) : SetQuestions(shuffled)

\* the ids 1..c turned by k places: some of the orders the shuffle can give
Rotation(c, k) == [i \in 1..c |-> ((i + k - 1) % c) + 1]

\* fetchQuestions resolves for a subject with up to MaxMatching rows, more
\* than one attempt takes
FetchQuestionsMany ==
  /\ testMounted /\ loading
  /\ \E c \in 1..MaxMatching : \E k \in 0..(c - 1) : SetQuestions(Rotation(c, k))

\* fetchQuestions resolves with no row: toast, navigate("/dashboard")
FetchQuestionsEmpty ==
  /\ testMounted /\ loading
  /\ loading' = FALSE
  /\ route' = "dashboard"
  /\ locationState' = NoState
  /\ matching' = 0
  /\ UNCHANGED startedAt
  /\ UNCHANGED <<questions, currentQuestionIndex, answers, timeLeft,
                 questionStartTime, timePerQuestion, now>>
  /\ UNCHANGED <<testMounted, resultsMounted, exitTicks, resultVars, histVars>>
  /\ UNCHANGED <<voteVars, exceptLaunch>>

\* fetchQuestions fails: toast, stay on the page with no question
FetchQuestionsError ==
  /\ testMounted /\ loading
  /\ loading' = FALSE
  /\ UNCHANGED <<questions, currentQuestionIndex, answers, timeLeft,
                 questionStartTime, timePerQuestion, now>>
  /\ UNCHANGED <<routerVars, resultVars, histVars>>
  /\ UNCHANGED <<voteVars, extVars>>

\* the countdown effect returning at timeLeft 0 without submitting
SubmitsAt_Below(t) == t < 0 /\ ~loading /\ Len(questions) > 0

\* the countdown effect's test on the timeLeft t it was rendered with
SubmitsAt(t) == t <= 0 /\ ~loading /\ Len(questions) > 0

\* one interval callback, and the countdown effect that runs on the new timeLeft
Tick ==
  /\ testMounted /\ timeLeft > 0
  /\ route # "test" => exitTicks < MaxExitTicks
  /\ exitTicks' = IF route # "test" THEN exitTicks + 1 ELSE exitTicks
  /\ timeLeft' = timeLeft - 1
  /\ IF SubmitsAt(timeLeft - 1)
       THEN Len(handoffs) < MaxHandoffs /\ HandleSubmit("timer", timeLeft - 1)
       ELSE UNCHANGED <<route, locationState, histVars>>
  /\ UNCHANGED <<questions, currentQuestionIndex, answers, loading,
                 questionStartTime, timePerQuestion, now>>
  /\ UNCHANGED <<testMounted, resultsMounted, resultVars>>
  /\ UNCHANGED <<voteVars, extVars>>

\* handleAnswerChange(value) on the current question
HandleAnswerChange ==
  /\ TestInteractive
  /\ \E value \in Options :
       answers' = (questions[currentQuestionIndex + 1] :> value) @@ answers
  /\ UNCHANGED <<questions, currentQuestionIndex, loading, timeLeft,
                 questionStartTime, timePerQuestion, now>>
  /\ UNCHANGED <<routerVars, resultVars, histVars>>
  /\ UNCHANGED <<voteVars, extVars>>

\* a Next that also moves on from the last question
CanGoNext_PastEnd(index, n) == index < n

\* the guard of handleNext: currentQuestionIndex < questions.length - 1
CanGoNext(index, n) == index < n - 1

\* the guard of handlePrevious: currentQuestionIndex > 0
CanGoPrevious(index) == index > 0

\* Test.handleNext
HandleNext ==
  /\ TestInteractive
  /\ IF CanGoNext(currentQuestionIndex, Len(questions))
       THEN /\ timePerQuestion' =
                 ArraySet(timePerQuestion, currentQuestionIndex,
                          OrZero(ArrayGet(timePerQuestion, currentQuestionIndex)) + Elapsed)
            /\ questionStartTime' = now
            /\ currentQuestionIndex' = currentQuestionIndex + 1
       ELSE UNCHANGED <<timePerQuestion, questionStartTime, currentQuestionIndex>>
  /\ UNCHANGED <<questions, answers, loading, timeLeft, now>>
  /\ UNCHANGED <<routerVars, resultVars, histVars>>
  /\ UNCHANGED <<voteVars, extVars>>

\* setCurrentQuestionIndex(index) as handlePrevious, the navigator buttons and
\* the keyboard shortcut call it: nothing but the index changes
SetCurrentQuestionIndex(index) ==
  /\ currentQuestionIndex' = index
  /\ UNCHANGED <<questions, answers, loading, timeLeft, questionStartTime,
                 timePerQuestion, now>>
  /\ UNCHANGED <<routerVars, resultVars, histVars>>

\* Test.handlePrevious
HandlePrevious ==
  /\ TestInteractive
  /\ IF CanGoPrevious(currentQuestionIndex)
       THEN SetCurrentQuestionIndex(currentQuestionIndex - 1)
       ELSE UNCHANGED <<testVars, now, routerVars, resultVars, histVars>>
  /\ UNCHANGED <<voteVars, extVars>>

\* a click on a number of the question navigator
NavigatorClick ==
  /\ TestInteractive
  /\ \E index \in 0..(Len(questions) - 1) : SetCurrentQuestionIndex(index)
  /\ UNCHANGED <<voteVars, extVars>>

\* the keys '0'..'9' of the keyboard shortcut
Digits == 0..9

\* the keydown listener: Ctrl/Cmd + '1'..'9' jumps to that question, '0' to the tenth
HandleKeyPress ==
  /\ testMounted /\ route = "test"
  /\ \E key \in Digits :
       IF key >= 1 /\ key - 1 < Len(questions)
         THEN SetCurrentQuestionIndex(key - 1)
       ELSE IF key = 0 /\ Len(questions) >= 10
         THEN SetCurrentQuestionIndex(9)
       ELSE UNCHANGED <<testVars, now, routerVars, resultVars, histVars>>
  /\ UNCHANGED <<voteVars, extVars>>

\* a click on Submit Test, which is rendered on the last question only
SubmitClick ==
  /\ TestRendered
  /\ currentQuestionIndex = Len(questions) - 1
  /\ Len(handoffs) < MaxHandoffs
  /\ HandleSubmit("manual", timeLeft)
  /\ UNCHANGED <<testVars, now, testMounted, resultsMounted, exitTicks, resultVars>>
  /\ UNCHANGED <<voteVars, extVars>>

\* a click on Back to Subjects
BackToSubjects ==
  /\ TestInteractive
  /\ route' = "dashboard"
  /\ locationState' = NoState
  /\ UNCHANGED <<testVars, now, testMounted, resultsMounted, exitTicks,
                 resultVars, histVars>>
  /\ UNCHANGED <<voteVars, extVars>>

\* Date.now() advances
Advance ==
  /\ testMounted
  /\ now < MaxClock
  /\ now' = now + 1
  /\ UNCHANGED <<testVars, routerVars, resultVars, histVars>>
  /\ UNCHANGED <<voteVars, extVars>>

(* ---------------------- Results page ---------------------------------- *)
\* a property of location.state, undefined when the object lacks it
Field(state, f) == IF f \in DOMAIN state THEN state[f] ELSE Undef

\* !results || score === undefined || total === undefined
PayloadMissing(state) ==
  \/ "results" \notin DOMAIN state
  \/ Field(state, "score") = Undef
  \/ Field(state, "total") = Undef

\* a Results page that renders whatever location.state holds
RendersReview_Always(state) == TRUE

\* the render guard of Results: <Navigate to="/dashboard" replace /> when the
\* payload is incomplete, the review otherwise
RendersReview(state) == ~PayloadMissing(state)

\* the row saveResults builds from location.state
ResultData(state) ==
  [user_id         |-> CurrentUser,
   score_percent   |-> MathRound(state.score * 100, state.total),
   correct_count   |-> state.score,
   wrong_count     |-> IF state.wrongCount # Undef THEN state.wrongCount
                       ELSE Len(state.results) - state.score - OrZero(state.skippedCount),
   skipped_count   |-> IF state.skippedCount # Undef THEN state.skippedCount
                       ELSE CountSkipped(state.results),
   total_questions |-> state.total,
   time_per_question |-> state.timePerQuestion]

\* one run of the save effect: saveResults() on the current location.state;
\* a failed insert is logged and nothing else happens
SaveResults(state) ==
  IF PayloadMissing(state)
    THEN UNCHANGED <<TestResults, saveRequests>>
    ELSE /\ saveRequests' = Append(saveRequests, ResultData(state))
         /\ \E ok \in BOOLEAN :
              TestResults' = IF ok THEN Append(TestResults, ResultData(state))
                             ELSE TestResults

\* App.tsx RouteTransitions: AnimatePresence mode="wait" keeps the page that is
\* left mounted until its exit transition (0.4 s) has run, then mounts the page
\* of the current location.  Unmounting Test clears its interval (effect
\* cleanup) and discards its state.
ExitComplete ==
  /\ testMounted /\ route # "test"
  /\ testMounted' = FALSE
  /\ exitTicks' = 0
  /\ questions' = <<>> /\ currentQuestionIndex' = 0 /\ answers' = <<>>
  /\ loading' = TRUE /\ timeLeft' = 0 /\ questionStartTime' = 0
  /\ timePerQuestion' = <<>> /\ now' = 0
  /\ IF route = "results"
       THEN /\ SaveResults(locationState)
            /\ IF PayloadMissing(locationState)
                 THEN route' = "dashboard" /\ resultsMounted' = FALSE
                 ELSE route' = route /\ resultsMounted' = TRUE
       ELSE UNCHANGED <<route, resultsMounted, TestResults, saveRequests>>
  /\ UNCHANGED <<locationState, effectRuns, histVars>>
  /\ UNCHANGED <<voteVars, extVars>>

\* the auth provider hands out a new user object (same id): the effect's
\* dependency list [user, results, score, total] changed, so it runs again
AuthStateChange ==
  /\ resultsMounted /\ route = "results"
  /\ effectRuns < MaxReruns
  /\ effectRuns' = effectRuns + 1
  /\ SaveResults(locationState)
  /\ UNCHANGED <<routerVars, testVars, now, histVars>>
  /\ UNCHANGED <<voteVars, extVars>>

\* the Results page is entered again on the same history entry (reload, or
\* back/forward): the component mounts anew with the same location.state
ReenterResults ==
  /\ resultsMounted /\ route = "results"
  /\ effectRuns < MaxReruns
  /\ effectRuns' = effectRuns + 1
  /\ SaveResults(locationState)
  /\ UNCHANGED <<routerVars, testVars, now, histVars>>
  /\ UNCHANGED <<voteVars, extVars>>

\* the properties of the payload the Results page insists on
RequiredFields == {"results", "score", "total"}

\* the required properties location.state has a value for
Present(state) ==
  {f \in RequiredFields \cap DOMAIN state : f = "results" \/ state[f] # Undef}

\* a location.state without the properties in fields
Without(state, fields) == [f \in (DOMAIN state) \ fields |-> state[f]]

\* the location.state objects /results can be opened on without a hand-off:
\* none at all, or an earlier payload with required properties missing
IncompleteStates ==
  {NoState} \cup
  {Without(handoffs[i], fields) :
     i \in 1..Len(handoffs), fields \in (SUBSET RequiredFields) \ {{}}}

\* /results is opened while no attempt is being handed off (typed address,
\* bookmark, history entry): Results mounts, its save effect runs, and it
\* renders the review or the redirect to the dashboard
OpenResults ==
  /\ ~testMounted /\ ~resultsMounted
  /\ Len(entryLog) < MaxEntries
  /\ \E state \in IncompleteStates :
       /\ SaveResults(state)
       /\ IF RendersReview(state)
            THEN route' = "results" /\ resultsMounted' = TRUE /\ locationState' = state
            ELSE route' = "dashboard" /\ resultsMounted' = FALSE /\ locationState' = NoState
       /\ entryLog' = Append(entryLog,
            [present  |-> Present(state),
             inserts  |-> Len(saveRequests') - Len(saveRequests),
             route    |-> route',
             review   |-> resultsMounted'])
  /\ UNCHANGED <<testMounted, exitTicks, effectRuns, testVars, now, histVars>>
  /\ UNCHANGED <<voteVars, exceptEntry>>

\* Results: Back to Dashboard
ResultsToDashboard ==
  /\ resultsMounted /\ route = "results"
  /\ route' = "dashboard"
  /\ locationState' = NoState
  /\ resultsMounted' = FALSE
  /\ UNCHANGED <<testMounted, exitTicks, resultVars, testVars, now, histVars>>
  /\ UNCHANGED <<voteVars, extVars>>

(* ---------------------- community: votes ------------------------------ *)
\* the posts of the community listing
Posts == {1, 2}

\* the two pages the current user has open: the listing (CommunityPage) and
\* the detail view (PostDetailPage) of the post DetailPost
Pages == {"list", "detail"}

DetailPost == 1

\* the posts a page renders
Shown(page) == IF page = "list" THEN Posts ELSE {DetailPost}

VoteTypes == {"up", "down"}

\* no row: the data of a lookup that found nothing
NoVote == [id |-> 0, vote_type |-> "none"]

\* the rows of a table for one (post, user) pair
RowsOf(table, post, user) ==
  {r \in table : r.post_id = post /\ r.user_id = user}

\* the vote state of a pair: "none", "up" or "down"
PairState(table, post, user) ==
  IF RowsOf(table, post, user) = {} THEN "none"
  ELSE (CHOOSE r \in RowsOf(table, post, user) : TRUE).vote_type

\* select("id, vote_type").eq("post_id", p).eq("user_id", u).single():
\* the row when exactly one matches, otherwise no data
SelectSingle(table, post, user) ==
  IF Cardinality(RowsOf(table, post, user)) = 1
    THEN LET r == CHOOSE x \in RowsOf(table, post, user) : TRUE
         IN  [id |-> r.id, vote_type |-> r.vote_type]
    ELSE NoVote

\* the votes table without its UNIQUE(post_id, user_id) constraint
InsertAllowed_NoUnique(table, post, user) == TRUE

\* UNIQUE(post_id, user_id): the insert is rejected when the pair has a row
InsertAllowed(table, post, user) == RowsOf(table, post, user) = {}

\* insert({post_id, user_id, vote_type})
InsertVote(table, id, post, user, voteType) ==
  IF InsertAllowed(table, post, user)
    THEN table \cup {[id |-> id, post_id |-> post, user_id |-> user,
                      vote_type |-> voteType]}
    ELSE table

\* a delete that removes nothing
DeleteVote_Keeps(table, id) == table

\* delete().eq("id", id)
DeleteVote(table, id) == {r \in table : r.id # id}

\* update({vote_type}).eq("id", id)
UpdateVote(table, id, voteType) ==
  {IF r.id = id THEN [r EXCEPT !.vote_type = voteType] ELSE r : r \in table}

\* handleVote updating the row whatever its type (no toggle-off)
WriteKind_AlwaysUpdate(existingVote, voteType) ==
  IF existingVote # NoVote THEN "update" ELSE "insert"

\* the branch handleVote takes on the looked-up row
WriteKind(existingVote, voteType) ==
  IF existingVote # NoVote
    THEN IF existingVote.vote_type = voteType THEN "delete" ELSE "update"
    ELSE "insert"

\* the table after the write of handleVote
ApplyWrite(table, id, existingVote, post, user, voteType) ==
  IF WriteKind(existingVote, voteType) = "delete"
    THEN DeleteVote(table, existingVote.id)
  ELSE IF WriteKind(existingVote, voteType) = "update"
    THEN UpdateVote(table, existingVote.id, voteType)
  ELSE InsertVote(table, id, post, user, voteType)

\* a count that ignores the vote type
CountVotes_AnyType(rows, post, t) ==
  Cardinality({r \in rows : r.post_id = post})

\* votes.filter(v => v.vote_type === t).length over the nested votes of a post
CountVotes(rows, post, t) ==
  Cardinality({r \in rows : r.post_id = post /\ r.vote_type = t})

\* votes.find(v => v.user_id === user.id)?.vote_type
UserVote(rows, post, user) == PairState(rows, post, user)

\* loadPosts / loadPost: what the page renders for a post from the fetched rows
Processed(rows, post) ==
  [upvotes   |-> CountVotes(rows, post, "up"),
   downvotes |-> CountVotes(rows, post, "down"),
   user_vote |-> UserVote(rows, post, CurrentUser)]

\* {post.upvotes - post.downvotes}
DisplayedScore(page, post) == display[page][post].upvotes - display[page][post].downvotes

\* what a page holds before its post has loaded
NotLoaded == [upvotes |-> 0, downvotes |-> 0, user_vote |-> "none"]

Idle == [pc |-> "idle", post |-> 0, voteType |-> "none", existingVote |-> NoVote,
         before |-> "none", lookupAt |-> 0]

NoReload == [phase |-> "none", rows |-> {}]

\* vote buttons that stay enabled while voteLoading is set
CanVote_NeverDisabled(page) == ~postsLoading[page]

\* the vote buttons of a page can be clicked: rendered (no spinner) and enabled
CanVote(page) == ~postsLoading[page] /\ ~voteLoading[page]

\* handleVote up to its first await: setVoteLoading(true), the lookup is sent
StartVote(page) ==
  /\ CanVote(page)
  /\ started < MaxRequests
  /\ \E post \in Shown(page), voteType \in VoteTypes :
       inflight' = [inflight EXCEPT ![page] =
                      [Idle EXCEPT !.pc = "lookup", !.post = post, !.voteType = voteType]]
  /\ voteLoading' = [voteLoading EXCEPT ![page] = TRUE]
  /\ started' = started + 1
  /\ UNCHANGED <<votes, nextVoteId, postsLoading, reload, display, events,
                 reqLog, lastWriter>>
  /\ UNCHANGED <<attemptVars, extVars>>

\* the backend serves the lookup and handleVote resumes with existingVote
LookupVote(page) ==
  /\ inflight[page].pc = "lookup"
  /\ LET req == inflight[page] IN
       inflight' = [inflight EXCEPT ![page] =
         [req EXCEPT !.pc = "write",
                     !.existingVote = SelectSingle(votes, req.post, CurrentUser),
                     !.before = PairState(votes, req.post, CurrentUser),
                     !.lookupAt = events + 1]]
  /\ events' = events + 1
  /\ UNCHANGED <<votes, nextVoteId, voteLoading, postsLoading, reload, display,
                 started, reqLog, lastWriter>>
  /\ UNCHANGED <<attemptVars, extVars>>

\* the backend serves the write; handleVote then calls loadPosts() / loadPost()
\* (setLoading(true), the fetch is sent) and, in finally, setVoteLoading(false)
WriteVote(page) ==
  /\ inflight[page].pc = "write" /\ ~lookupFailed[page]
  /\ LET req  == inflight[page]
         kind == WriteKind(req.existingVote, req.voteType)
         new  == ApplyWrite(votes, nextVoteId, req.existingVote, req.post,
                            CurrentUser, req.voteType)
     IN  /\ votes' = new
         /\ nextVoteId' = IF kind = "insert" THEN nextVoteId + 1 ELSE nextVoteId
         /\ reqLog' = Append(reqLog,
              [page |-> page, post |-> req.post, voteType |-> req.voteType,
               before |-> req.before, found |-> req.existingVote.vote_type,
               atWrite |-> PairState(votes, req.post, CurrentUser),
               write |-> kind,
               after |-> PairState(new, req.post, CurrentUser),
               othersKept |-> \A p \in Posts, u \in Users :
                                <<p, u>> # <<req.post, CurrentUser>>
                                  => RowsOf(new, p, u) = RowsOf(votes, p, u),
               lookupAt |-> req.lookupAt, writeAt |-> events + 1])
  /\ events' = events + 1
  /\ lastWriter' = page
  /\ inflight' = [inflight EXCEPT ![page] = Idle]
  /\ reload' = [reload EXCEPT ![page] = [phase |-> "sent", rows |-> {}]]
  /\ postsLoading' = [postsLoading EXCEPT ![page] = TRUE]
  /\ voteLoading' = [voteLoading EXCEPT ![page] = FALSE]
  /\ UNCHANGED <<display, started>>
  /\ UNCHANGED <<attemptVars, extVars>>

\* the lookup returns an error: { data: null }, so handleVote resumes with
\* existingVote null, as if the user had no vote on the post
LookupVoteFail(page) ==
  /\ inflight[page].pc = "lookup"
  /\ LET req == inflight[page] IN
       inflight' = [inflight EXCEPT ![page] =
         [req EXCEPT !.pc = "write",
                     !.existingVote = NoVote,
                     !.before = PairState(votes, req.post, CurrentUser),
                     !.lookupAt = events + 1]]
  /\ lookupFailed' = [lookupFailed EXCEPT ![page] = TRUE]
  /\ events' = events + 1
  /\ UNCHANGED <<votes, nextVoteId, voteLoading, postsLoading, reload, display,
                 started, reqLog, lastWriter, failLog>>
  /\ UNCHANGED <<attemptVars, exceptFail>>

\* the toasts handleVote shows for a request whose lookup or write returned an
\* error: its only toast is in the catch block, and an awaited { error } does
\* not throw
VoteToasts(lookupError, writeError) == {}

\* the end of a vote request with a failed call: the write is served (ok) or
\* returns an error; the result is dropped either way, loadPosts() /
\* loadPost() is called and finally clears voteLoading
FinishFailedVote(page, ok) ==
  LET req  == inflight[page]
      kind == WriteKind(req.existingVote, req.voteType)
      new  == IF ok THEN ApplyWrite(votes, nextVoteId, req.existingVote, req.post,
                                    CurrentUser, req.voteType)
              ELSE votes
  IN  /\ votes' = new
      /\ nextVoteId' = IF ok /\ kind = "insert" THEN nextVoteId + 1 ELSE nextVoteId
      /\ failLog' = Append(failLog,
           [page |-> page, post |-> req.post, voteType |-> req.voteType,
            lookupError |-> lookupFailed[page], writeError |-> ~ok,
            write |-> kind,
            atWrite |-> PairState(votes, req.post, CurrentUser),
            after |-> PairState(new, req.post, CurrentUser),
            toasts |-> VoteToasts(lookupFailed[page], ~ok)])
      /\ lookupFailed' = [lookupFailed EXCEPT ![page] = FALSE]
      /\ events' = events + 1
      /\ lastWriter' = IF ok THEN page ELSE lastWriter
      /\ inflight' = [inflight EXCEPT ![page] = Idle]
      /\ reload' = [reload EXCEPT ![page] = [phase |-> "sent", rows |-> {}]]
      /\ postsLoading' = [postsLoading EXCEPT ![page] = TRUE]
      /\ voteLoading' = [voteLoading EXCEPT ![page] = FALSE]
      /\ UNCHANGED <<display, started, reqLog>>
      /\ UNCHANGED <<attemptVars, exceptFail>>

\* the write of a request whose lookup had failed: the insert of the else
\* branch, served by the backend or failing as well
WriteAfterLookupFail(page) ==
  /\ inflight[page].pc = "write" /\ lookupFailed[page]
  /\ \E ok \in BOOLEAN : FinishFailedVote(page, ok)

\* the write of a request returns an error
WriteVoteFail(page) ==
  /\ inflight[page].pc = "write" /\ ~lookupFailed[page]
  /\ FinishFailedVote(page, FALSE)

\* votes.find(v => v.vote_type && user.id): the first vote row of the post in
\* the order the select returned them, whoever cast it; the order is the
\* backend's, so any row can be the first
UserVoteFirstRow(rows, post) ==
  {r.vote_type : r \in {x \in rows : x.post_id = post}}

\* loadPost of the copy of PostDetailPage in part_003, for DetailPost: the
\* select with votes!inner returns no row for a post without votes and the
\* page leaves for /community; otherwise setPost with the counts and userVote
LoadPostLegacy ==
  /\ IF {r \in votes : r.post_id = DetailPost} = {}
       THEN legacyPost' = NotLoaded
       ELSE \E own \in UserVoteFirstRow(votes, DetailPost) :
              legacyPost' = [upvotes   |-> CountVotes(votes, DetailPost, "up"),
                             downvotes |-> CountVotes(votes, DetailPost, "down"),
                             user_vote |-> own]
  /\ UNCHANGED <<attemptVars, voteVars, exceptOwn>>

\* the backend serves the select of loadPosts / loadPost: posts with their votes
ReloadQuery(page) ==
  /\ reload[page].phase = "sent"
  /\ reload' = [reload EXCEPT ![page] = [phase |-> "answered", rows |-> votes]]
  /\ UNCHANGED <<votes, nextVoteId, inflight, voteLoading, postsLoading, display,
                 started, events, reqLog, lastWriter>>
  /\ UNCHANGED <<attemptVars, extVars>>

\* loadPosts / loadPost resumes: setPosts(processed), finally setLoading(false)
ReloadDeliver(page) ==
  /\ reload[page].phase = "answered"
  /\ display' = [display EXCEPT ![page] =
                   [post \in Shown(page) |-> Processed(reload[page].rows, post)]]
  /\ postsLoading' = [postsLoading EXCEPT ![page] = FALSE]
  /\ reload' = [reload EXCEPT ![page] = NoReload]
  /\ UNCHANGED <<votes, nextVoteId, inflight, voteLoading, started, events,
                 reqLog, lastWriter>>
  /\ UNCHANGED <<attemptVars, extVars>>

\* the id of the row a pair has when the pages open
InitialId(post, user) == post

\* the tables the pages can open on: the current user has not voted yet, the
\* other user has at most one row per post
InitialTables ==
  {{[id |-> InitialId(post, OtherUser), post_id |-> post, user_id |-> OtherUser,
     vote_type |-> st[post]] : post \in {q \in Posts : st[q] # "none"}}
     : st \in [Posts -> {"none", "up", "down"}]}

\* no community page is open
InitNoCommunity ==
  /\ votes = {}
  /\ nextVoteId = 1
  /\ inflight = [page \in Pages |-> Idle]
  /\ voteLoading = [page \in Pages |-> FALSE]
  /\ postsLoading = [page \in Pages |-> FALSE]
  /\ reload = [page \in Pages |-> NoReload]
  /\ display = [page \in Pages |-> [post \in Shown(page) |-> Processed({}, post)]]
  /\ started = 0
  /\ events = 0
  /\ reqLog = <<>>
  /\ lastWriter = "none"

(* ---------------------- community: points ----------------------------- *)
\* the rows a statement has added to a table (rows are never re-numbered)
NewRows(old, new) == {r \in new : \A o \in old : o.id # r.id}

\* INSERT ... ON CONFLICT that overwrites the stored points
update_user_points_Overwrite(pts, p_user_id, p_points_to_add) ==
  [pts EXCEPT ![p_user_id] = p_points_to_add]

\* update_user_points: INSERT (user, points) ON CONFLICT (user_id) DO UPDATE SET
\* points = user_points.points + p_points_to_add
update_user_points(pts, p_user_id, p_points_to_add) ==
  [pts EXCEPT ![p_user_id] = IF @ = Undef THEN p_points_to_add ELSE @ + p_points_to_add]

\* points for creating a post
PostPoints == 10

\* points for creating a reply
ReplyPoints == 5

\* points for an up vote received
UpvotePoints == 2

\* AFTER INSERT ON posts
trigger_update_points_on_post(pts, row) ==
  update_user_points(pts, row.author_id, PostPoints)

\* AFTER INSERT ON replies
trigger_update_points_on_reply(pts, row) ==
  update_user_points(pts, row.author_id, ReplyPoints)

\* a vote trigger that pays for every inserted vote
PaysFor_AnyVote(vote_type) == TRUE

\* IF NEW.vote_type = 'up'
PaysFor(vote_type) == vote_type = "up"

\* AFTER INSERT ON votes: SELECT author_id FROM posts WHERE id = NEW.post_id,
\* then points for an up vote only
trigger_update_points_on_vote(pts, posts, row) ==
  LET post_author_id == (CHOOSE p \in posts : p.id = row.post_id).author_id
  IN  IF PaysFor(row.vote_type)
        THEN update_user_points(pts, post_author_id, UpvotePoints)
        ELSE pts

\* INSERT INTO posts by user (RLS: auth.uid() = author_id)
DbInsertPost(user) ==
  /\ dbOps < MaxDbOps
  /\ LET row == [id |-> nextPostId, author_id |-> user] IN
       /\ postRows' = postRows \cup {row}
       /\ user_points' = trigger_update_points_on_post(user_points, row)
  /\ nextPostId' = nextPostId + 1
  /\ dbOps' = dbOps + 1
  /\ UNCHANGED <<replyRows, nextReplyId, upVoters>>
  /\ UNCHANGED <<attemptVars, voteVars, exceptPoints>>

\* INSERT INTO replies by user on an existing post
DbInsertReply(user) ==
  /\ dbOps < MaxDbOps
  /\ \E p \in postRows :
       LET row == [id |-> nextReplyId, post_id |-> p.id, author_id |-> user] IN
         /\ replyRows' = replyRows \cup {row}
         /\ user_points' = trigger_update_points_on_reply(user_points, row)
  /\ nextReplyId' = nextReplyId + 1
  /\ dbOps' = dbOps + 1
  /\ UNCHANGED <<postRows, nextPostId, upVoters>>
  /\ UNCHANGED <<attemptVars, inflight, voteLoading, postsLoading, reload,
                 display, started, events, reqLog, lastWriter, votes, nextVoteId,
                 exceptPoints>>

\* INSERT INTO votes by user on an existing post; UNIQUE(post_id, user_id)
\* rejects a second row of the pair and then no trigger runs
DbInsertVote(user) ==
  /\ dbOps < MaxDbOps
  /\ \E p \in postRows, voteType \in VoteTypes :
       LET row == [id |-> nextVoteId, post_id |-> p.id, user_id |-> user,
                   vote_type |-> voteType] IN
         IF InsertAllowed(votes, p.id, user)
           THEN /\ votes' = InsertVote(votes, nextVoteId, p.id, user, voteType)
                /\ user_points' = trigger_update_points_on_vote(user_points, postRows, row)
                /\ upVoters' = IF voteType = "up" THEN upVoters \cup {<<user, p.id>>}
                               ELSE upVoters
           ELSE UNCHANGED <<votes, user_points, upVoters>>
  /\ nextVoteId' = nextVoteId + 1
  /\ dbOps' = dbOps + 1
  /\ UNCHANGED <<postRows, replyRows, nextPostId, nextReplyId>>
  /\ UNCHANGED <<attemptVars, inflight, voteLoading, postsLoading, reload,
                 display, started, events, reqLog, lastWriter, exceptPoints>>

\* UPDATE votes SET vote_type by the owner of the row: no trigger
DbUpdateVote(user) ==
  /\ dbOps < MaxDbOps
  /\ \E r \in votes, voteType \in VoteTypes :
       /\ r.user_id = user
       /\ votes' = UpdateVote(votes, r.id, voteType)
       /\ upVoters' = IF voteType = "up" THEN upVoters \cup {<<user, r.post_id>>}
                      ELSE upVoters
  /\ dbOps' = dbOps + 1
  /\ UNCHANGED <<postRows, replyRows, user_points, nextPostId, nextReplyId>>
  /\ UNCHANGED <<attemptVars, inflight, voteLoading, postsLoading, reload,
                 display, started, events, reqLog, lastWriter, nextVoteId,
                 exceptPoints>>

\* DELETE FROM votes by the owner of the row: no trigger
DbDeleteVote(user) ==
  /\ dbOps < MaxDbOps
  /\ \E r \in votes :
       /\ r.user_id = user
       /\ votes' = DeleteVote(votes, r.id)
  /\ dbOps' = dbOps + 1
  /\ UNCHANGED <<postRows, replyRows, user_points, nextPostId, nextReplyId, upVoters>>
  /\ UNCHANGED <<attemptVars, inflight, voteLoading, postsLoading, reload,
                 display, started, events, reqLog, lastWriter, nextVoteId,
                 exceptPoints>>

\* the community tables are empty and nobody has points
InitNoPoints ==
  /\ postRows = {}
  /\ replyRows = {}
  /\ user_points = [u \in Users |-> Undef]
  /\ nextPostId = 1
  /\ nextReplyId = 1
  /\ dbOps = 0
  /\ upVoters = {}

(* ---------------------- community: reply pagination ------------------- *)
REPLIES_PER_PAGE == 5

Min(a, b) == IF a <= b THEN a ELSE b

\* the stored replies of the post, ordered by created_at ascending
StoredReplies == [k \in 1..replyTotal |-> k]

\* .range(from, to): the rows at the 0-based offsets from..to, as far as they exist
Range(rows, from, to) ==
  IF from >= Len(rows) THEN <<>> ELSE SubSeq(rows, from + 1, Min(to + 1, Len(rows)))

\* a page that starts one row late
PageOf_OffByOne(rows, page) ==
  Range(rows, page * REPLIES_PER_PAGE + 1, page * REPLIES_PER_PAGE + REPLIES_PER_PAGE)

\* from = page * REPLIES_PER_PAGE, to = from + REPLIES_PER_PAGE - 1
PageOf(rows, page) ==
  Range(rows, page * REPLIES_PER_PAGE, page * REPLIES_PER_PAGE + REPLIES_PER_PAGE - 1)

\* hasMore computed with <= in the place of <
HasMore_Inclusive(page, count) == (page + 1) * REPLIES_PER_PAGE <= count

\* loadedReplies < totalReplies
HasMore(page, count) == (page + 1) * REPLIES_PER_PAGE < count

\* the Load more button is rendered and enabled
LoadMoreShown == ~repliesLoading /\ Len(replies) > 0 /\ hasMoreReplies /\ ~loadingMore

\* loadMoreReplies: loadReplies(repliesPage + 1, false) up to its await
LoadMoreReplies ==
  /\ LoadMoreShown
  /\ ~(loadingMore \/ ~hasMoreReplies)
  /\ loadingMore' = TRUE
  /\ replyReq' = replyReq \cup {[page |-> repliesPage + 1, isInitialLoad |-> FALSE]}
  /\ UNCHANGED <<replyTotal, replies, repliesPage, hasMoreReplies, repliesLoading,
                 replyErrors, pageLog>>
  /\ UNCHANGED <<attemptVars, voteVars, exceptReplies>>

\* loadReplies resumes with the rows of its page and the exact count
LoadRepliesOk ==
  \E req \in replyReq :
    LET newReplies == PageOf(StoredReplies, req.page)
        more       == HasMore(req.page, replyTotal)
    IN  /\ replyReq' = replyReq \ {req}
        /\ replies' = IF req.isInitialLoad THEN newReplies ELSE replies \o newReplies
        /\ repliesPage' = IF req.isInitialLoad THEN 0 ELSE req.page
        /\ hasMoreReplies' = more
        /\ repliesLoading' = FALSE
        /\ loadingMore' = FALSE
        /\ pageLog' = Append(pageLog, [page |-> req.page, items |-> newReplies,
                                       hasMore |-> more])
        /\ UNCHANGED <<replyTotal, replyErrors>>
        /\ UNCHANGED <<attemptVars, voteVars, exceptReplies>>

\* loadReplies resumes with an error: toast, and finally both flags are cleared
LoadRepliesError ==
  /\ replyErrors < MaxReplyErrors
  /\ \E req \in replyReq :
       /\ replyReq' = replyReq \ {req}
       /\ replyErrors' = replyErrors + 1
       /\ repliesLoading' = FALSE
       /\ loadingMore' = FALSE
       /\ UNCHANGED <<replyTotal, replies, repliesPage, hasMoreReplies, pageLog>>
       /\ UNCHANGED <<attemptVars, voteVars, exceptReplies>>

\* no post detail page shows replies
InitNoReplies ==
  /\ replyTotal = 0
  /\ replies = <<>>
  /\ repliesPage = 0
  /\ hasMoreReplies = TRUE
  /\ repliesLoading = FALSE
  /\ loadingMore = FALSE
  /\ replyReq = {}
  /\ replyErrors = 0
  /\ pageLog = <<>>

(* ---------------------- profile page --------------------------------- *)
\* days that must lie between two changes of the display name
NameChangeDays == 60

Tabs == {1, 2}

Names == {"a", "b", "c"}

\* the steps by which time advances: a day, or a day less than the waiting time
Jumps == {1, NameChangeDays - 1}

\* canChangeName on the profile a tab holds: no last_name_change, or
\* daysDiff >= 60
canChangeName(profile, today) ==
  profile.last_name_change = Undef
    \/ today - profile.last_name_change >= NameChangeDays

\* loadProfile on mount or reload of a tab: the stored row becomes the tab's
\* profile and fills the form
LoadProfile(tab) ==
  /\ tabProfile' = [tabProfile EXCEPT ![tab] = profileRow]
  /\ formName' = [formName EXCEPT ![tab] = profileRow.display_name]
  /\ profileToast' = [profileToast EXCEPT ![tab] = "none"]
  /\ UNCHANGED <<profileRow, day, timeSteps>>
  /\ UNCHANGED <<attemptVars, voteVars, exceptProfile>>

\* typing into the display-name input, which is disabled={!canChangeName()}
EditName(tab) ==
  /\ canChangeName(tabProfile[tab], day)
  /\ \E name \in Names \ {formName[tab]} :
       formName' = [formName EXCEPT ![tab] = name]
  /\ UNCHANGED <<profileRow, tabProfile, profileToast, day, timeSteps>>
  /\ UNCHANGED <<attemptVars, voteVars, exceptProfile>>

\* handleSave: a changed name is refused when canChangeName() is false on the
\* tab's profile; otherwise the row is updated (display_name and
\* last_name_change when the name changed) and loadProfile() is awaited.  The
\* update or the reload may fail.
HandleSave(tab) ==
  LET profile == tabProfile[tab]
      changed == formName[tab] # profile.display_name
  IN
  /\ IF changed /\ ~canChangeName(profile, day)
       THEN /\ profileToast' = [profileToast EXCEPT ![tab] = "Name Change Restricted"]
            /\ UNCHANGED <<profileRow, tabProfile, formName>>
       ELSE \E updated, loaded \in BOOLEAN :
              LET row == IF updated /\ changed
                           THEN [display_name |-> formName[tab], last_name_change |-> day]
                           ELSE profileRow
              IN  /\ profileRow' = row
                  /\ IF updated /\ loaded
                       THEN /\ tabProfile' = [tabProfile EXCEPT ![tab] = row]
                            /\ formName' = [formName EXCEPT ![tab] = row.display_name]
                       ELSE UNCHANGED <<tabProfile, formName>>
                  /\ profileToast' = [profileToast EXCEPT ![tab] =
                        IF updated THEN "Profile Updated" ELSE "Error"]
  /\ UNCHANGED <<day, timeSteps>>
  /\ UNCHANGED <<attemptVars, voteVars, exceptProfile>>

\* time passes
AdvanceDays ==
  /\ timeSteps < MaxTimeSteps
  /\ \E d \in Jumps : day' = day + d
  /\ timeSteps' = timeSteps + 1
  /\ UNCHANGED <<profileRow, tabProfile, formName, profileToast>>
  /\ UNCHANGED <<attemptVars, voteVars, exceptProfile>>

\* the profile row, loaded in both tabs
ProfileLoaded(row) ==
  /\ profileRow = row
  /\ tabProfile = [t \in Tabs |-> row]
  /\ formName = [t \in Tabs |-> row.display_name]
  /\ profileToast = [t \in Tabs |-> "none"]
  /\ day = 0
  /\ timeSteps = 0

\* no profile page is in use
InitNoProfile == ProfileLoaded([display_name |-> "a", last_name_change |-> Undef])

\* the Results page was never opened without a hand-off
InitNoEntry == entryLog = <<>>

(* ---------------------- account deletion ------------------------------- *)
\* the deletes of handleDeleteAccount, in the order they are awaited
DeleteOrder == <<"profiles", "user_points", "posts", "replies", "votes">>

\* the tables that hold rows of a user
UserTables == {DeleteOrder[i] : i \in 1..Len(DeleteOrder)} \cup {"TestResults"}

\* positions of handleDeleteAccount after its deletes
AtSignOut == Len(DeleteOrder) + 1
DeleteDone == Len(DeleteOrder) + 2

\* the tables with a row-level policy FOR DELETE for the owner of a row;
\* user_points has SELECT, UPDATE and INSERT policies only, so with row level
\* security enabled a delete on it removes no row and reports no error
HasDeletePolicy(table) == table # "user_points"

\* the confirmation dialog's "Delete Account": handleDeleteAccount up to its
\* first await
StartDelete ==
  /\ signedIn /\ ~deleting
  /\ deleteStep \in {0, DeleteDone}
  /\ deleting' = TRUE
  /\ deleteStep' = 1
  /\ deleteErrors' = {}
  /\ deleteToasts' = {}
  /\ UNCHANGED <<ownedRows, signedIn>>
  /\ UNCHANGED <<attemptVars, voteVars, exceptDelete>>

\* await supabase.from(table).delete().eq(..., user.id) resolves: the rows of
\* the user are gone, or the request failed and the table is as it was.  The
\* awaited { error } is dropped, so the handler goes on to its next statement
\* either way
DeleteRows ==
  /\ deleteStep \in 1..Len(DeleteOrder)
  /\ LET table == DeleteOrder[deleteStep] IN
       \E ok \in BOOLEAN :
         /\ ownedRows' = IF ok /\ HasDeletePolicy(table)
                            THEN [ownedRows EXCEPT ![table] = 0]
                            ELSE ownedRows
         /\ deleteErrors' = IF ok THEN deleteErrors ELSE deleteErrors \cup {table}
  /\ deleteStep' = deleteStep + 1
  /\ UNCHANGED <<signedIn, deleting, deleteToasts>>
  /\ UNCHANGED <<attemptVars, voteVars, exceptDelete>>

\* await signOut() and the rest of handleDeleteAccount: the success toast and
\* navigate("/"), or the catch block when signOut rejects; finally clears
\* deleting
SignOutAndFinish ==
  /\ deleteStep = AtSignOut
  /\ \E rejected \in BOOLEAN :
       /\ signedIn' = rejected
       /\ deleteToasts' = deleteToasts \cup
                            {IF rejected THEN "Error" ELSE "Account Deleted"}
  /\ deleting' = FALSE
  /\ deleteStep' = DeleteDone
  /\ UNCHANGED <<ownedRows, deleteErrors>>
  /\ UNCHANGED <<attemptVars, voteVars, exceptDelete>>

\* no call of a vote request has failed
InitNoFail ==
  /\ lookupFailed = [page \in Pages |-> FALSE]
  /\ failLog = <<>>

\* nobody is signed in on the profile page
InitNoDelete ==
  /\ ownedRows = [t \in UserTables |-> 0]
  /\ signedIn = FALSE /\ deleting = FALSE
  /\ deleteStep = 0 /\ deleteErrors = {} /\ deleteToasts = {}

\* fetchQuestions has not resolved
InitNoLaunch ==
  matching = Undef /\ startedAt = Undef

\* the other copy of the detail page is not open
InitNoOwn ==
  legacyPost = NotLoaded

(* ---------------------- the post list of CommunityPage ---------------- *)
\* the rows of the posts table seen by the list, in the order of created_at;
\* title and content are sequences of characters
StoredPosts ==
  <<[id |-> 1, title |-> <<"A", "b">>, content |-> <<"c">>,
     subject |-> "Anatomy", upvotes |-> 0, downvotes |-> 0],
    [id |-> 2, title |-> <<"b">>, content |-> <<"A">>,
     subject |-> "Physiology", upvotes |-> 2, downvotes |-> 0],
    [id |-> 3, title |-> <<"c">>, content |-> <<"a", "b">>,
     subject |-> "Anatomy", upvotes |-> 2, downvotes |-> 1]>>

\* what can be typed into the search box
SearchTexts == {<<>>, <<"a">>, <<"A", "B">>, <<"c">>}
SubjectChoices == {"all", "Anatomy", "Physiology"}
SortChoices == {"newest", "oldest", "most_voted"}

\* String.prototype.toLowerCase over the letters used here
LowerOf(ch) ==
  CASE ch = "A" -> "a"
    [] ch = "B" -> "b"
    [] ch = "C" -> "c"
    [] OTHER -> ch

toLowerCase(s) == [i \in 1..Len(s) |-> LowerOf(s[i])]

\* String.prototype.includes
includes(s, t) ==
  \E i \in 0..(Len(s) - Len(t)) : SubSeq(s, i + 1, i + Len(t)) = t

ReverseSeq(s) == [i \in 1..Len(s) |-> s[Len(s) + 1 - i]]

\* query.order("created_at", {ascending}) : descending unless "oldest"
OrderedRows(sort) ==
  IF sort = "oldest" THEN StoredPosts ELSE ReverseSeq(StoredPosts)

NetVotes(p) == p.upvotes - p.downvotes

\* Array.prototype.sort with (b.upvotes - b.downvotes) - (a.upvotes - a.downvotes):
\* stable, highest net votes first
RECURSIVE SortMostVoted(_)
SortMostVoted(rows) ==
  IF rows = <<>> THEN <<>>
  ELSE LET first == CHOOSE i \in 1..Len(rows) :
                      /\ \A j \in 1..Len(rows) : NetVotes(rows[j]) <= NetVotes(rows[i])
                      /\ \A j \in 1..(i - 1) : NetVotes(rows[j]) < NetVotes(rows[i])
           rest == [j \in 1..(Len(rows) - 1) |-> IF j < first THEN rows[j] ELSE rows[j + 1]]
       IN <<rows[first]>> \o SortMostVoted(rest)

\* the search filter of loadPosts: skipped for an empty text
MatchesSearch(p, search) ==
  \/ search = <<>>
  \/ includes(toLowerCase(p.title), toLowerCase(search))
  \/ includes(toLowerCase(p.content), toLowerCase(search))

MatchesSubject(p, subject) == subject = "all" \/ p.subject = subject

\* what loadPosts hands to setPosts, as the ids of the posts
Listing(sort, search, subject) ==
  LET ordered == OrderedRows(sort)
      processedPosts == IF sort = "most_voted" THEN SortMostVoted(ordered) ELSE ordered
      filteredPosts == SelectSeq(processedPosts,
                         LAMBDA p : MatchesSearch(p, search) /\ MatchesSubject(p, subject))
  IN [i \in 1..Len(filteredPosts) |-> filteredPosts[i].id]

\* the values a loadPosts call reads from the render that started it
Captured == [sortBy |-> sortBy, searchQuery |-> searchQuery,
             subjectFilter |-> subjectFilter]

\* the search box: onChange sets the state, nothing else
SetSearchQuery(text) ==
  /\ ~listLoading
  /\ searchQuery' = text
  /\ UNCHANGED <<listPosts, listLoading, subjectFilter, sortBy, listReq, listFetched>>
  /\ UNCHANGED <<attemptVars, voteVars, exceptList>>

\* the subject select: onValueChange sets the state, nothing else
SetSubjectFilter(subject) ==
  /\ ~listLoading
  /\ subject # subjectFilter
  /\ subjectFilter' = subject
  /\ UNCHANGED <<listPosts, listLoading, searchQuery, sortBy, listReq, listFetched>>
  /\ UNCHANGED <<attemptVars, voteVars, exceptList>>

\* the sort select: the effect on [sortBy] then calls loadPosts
SetSortBy(sort) ==
  /\ ~listLoading
  /\ sort # sortBy
  /\ sortBy' = sort
  /\ listLoading' = TRUE
  /\ listReq' = [Captured EXCEPT !.sortBy = sort]
  /\ UNCHANGED <<listPosts, searchQuery, subjectFilter, listFetched>>
  /\ UNCHANGED <<attemptVars, voteVars, exceptList>>

\* loadPosts after its query has returned rows
LoadPostsOk ==
  /\ listLoading
  /\ listPosts' = Listing(listReq.sortBy, listReq.searchQuery, listReq.subjectFilter)
  /\ listLoading' = FALSE
  /\ listFetched' = TRUE
  /\ UNCHANGED <<searchQuery, subjectFilter, sortBy, listReq>>
  /\ UNCHANGED <<attemptVars, voteVars, exceptList>>

\* loadPosts after its query has returned an error: the list stays
LoadPostsError ==
  /\ listLoading
  /\ listLoading' = FALSE
  /\ listFetched' = FALSE
  /\ UNCHANGED <<listPosts, searchQuery, subjectFilter, sortBy, listReq>>
  /\ UNCHANGED <<attemptVars, voteVars, exceptList>>

\* no community page lists posts
InitNoList ==
  /\ listPosts = <<>>
  /\ listLoading = FALSE
  /\ searchQuery = <<>>
  /\ subjectFilter = "all"
  /\ sortBy = "newest"
  /\ listReq = [sortBy |-> "newest", searchQuery |-> <<>>, subjectFilter |-> "all"]
  /\ listFetched = FALSE

(* ---------------------- leaving a page -------------------------------- *)
PostPath == "/community/post/1"

\* the route whose page component starts a call of this kind
PageOfCall(kind) == IF kind = "loadSubjects" THEN "/dashboard" ELSE PostPath

\* the page component that started the call is the one on screen
Alive(c) == c.inst = instance /\ pathname = PageOfCall(c.kind)

\* a setState of the page that started the call: dropped once it has unmounted
SetIfAlive(c, new, old) == IF Alive(c) THEN new ELSE old

DetailDefaults ==
  /\ detailLoading' = FALSE /\ detailPost' = "none" /\ detailReplies' = "none"
  /\ replyLoading' = FALSE

DashboardDefaults ==
  loadingSubjects' = FALSE /\ subjects' = "fallback"

\* the user opens a post: the effect on [id] calls loadPost and loadReplies(0, true)
OpenPostDetail ==
  /\ pathname # PostPath
  /\ instance < MaxVisits
  /\ pathname' = PostPath
  /\ instance' = instance + 1
  /\ calls' = calls \cup {[kind |-> "loadPost", inst |-> instance + 1],
                          [kind |-> "loadReplies", inst |-> instance + 1]}
  /\ detailLoading' = TRUE /\ detailPost' = "none" /\ detailReplies' = "none"
  /\ replyLoading' = FALSE
  /\ DashboardDefaults
  /\ UNCHANGED <<toastCount, posted>>
  /\ UNCHANGED <<attemptVars, voteVars, exceptLeave>>

\* the user opens the dashboard: its effect loads the subjects
OpenDashboard ==
  /\ pathname # "/dashboard"
  /\ instance < MaxVisits
  /\ pathname' = "/dashboard"
  /\ instance' = instance + 1
  /\ calls' = calls \cup {[kind |-> "loadSubjects", inst |-> instance + 1]}
  /\ loadingSubjects' = TRUE /\ subjects' = "fallback"
  /\ DetailDefaults
  /\ UNCHANGED <<toastCount, posted>>
  /\ UNCHANGED <<attemptVars, voteVars, exceptLeave>>

\* the user goes to the community list
OpenCommunity ==
  /\ pathname # "/community"
  /\ pathname' = "/community"
  /\ DetailDefaults /\ DashboardDefaults
  /\ UNCHANGED <<instance, calls, toastCount, posted>>
  /\ UNCHANGED <<attemptVars, voteVars, exceptLeave>>

\* loadPost, the query returned the post
LoadPostOk(c) ==
  /\ c \in calls /\ c.kind = "loadPost"
  /\ calls' = calls \ {c}
  /\ detailPost' = SetIfAlive(c, "shown", detailPost)
  /\ detailLoading' = SetIfAlive(c, FALSE, detailLoading)
  /\ UNCHANGED <<pathname, instance, detailReplies, replyLoading, loadingSubjects,
                 subjects, toastCount, posted>>
  /\ UNCHANGED <<attemptVars, voteVars, exceptLeave>>

\* loadPost, the query returned an error: toast and navigate("/community")
LoadPostError(c) ==
  /\ c \in calls /\ c.kind = "loadPost"
  /\ calls' = calls \ {c}
  /\ toastCount' = toastCount + 1
  /\ pathname' = "/community"
  /\ DetailDefaults /\ DashboardDefaults
  /\ UNCHANGED <<instance, posted>>
  /\ UNCHANGED <<attemptVars, voteVars, exceptLeave>>

\* loadReplies(0, true), from the mount effect or from the timer of handleReply,
\* the query returned rows
LoadFirstPageOk(c) ==
  /\ c \in calls /\ c.kind \in {"loadReplies", "reconcile"}
  /\ calls' = calls \ {c}
  /\ detailReplies' = SetIfAlive(c, "loaded", detailReplies)
  /\ UNCHANGED <<pathname, instance, detailLoading, detailPost, replyLoading,
                 loadingSubjects, subjects, toastCount, posted>>
  /\ UNCHANGED <<attemptVars, voteVars, exceptLeave>>

\* the same, the query returned an error: toast
LoadFirstPageError(c) ==
  /\ c \in calls /\ c.kind \in {"loadReplies", "reconcile"}
  /\ calls' = calls \ {c}
  /\ toastCount' = toastCount + 1
  /\ UNCHANGED <<pathname, instance, detailLoading, detailPost, detailReplies,
                 replyLoading, loadingSubjects, subjects, posted>>
  /\ UNCHANGED <<attemptVars, voteVars, exceptLeave>>

\* handleReply up to its insert
SubmitReply ==
  /\ pathname = PostPath /\ ~detailLoading /\ detailPost = "shown"
  /\ ~replyLoading
  /\ posted < MaxPosted
  /\ posted' = posted + 1
  /\ replyLoading' = TRUE
  /\ calls' = calls \cup {[kind |-> "insertReply", inst |-> instance]}
  /\ UNCHANGED <<pathname, instance, detailLoading, detailPost, detailReplies,
                 loadingSubjects, subjects, toastCount>>
  /\ UNCHANGED <<attemptVars, voteVars, exceptLeave>>

\* handleReply after the insert returned the row: append, toast, start the timer
InsertReplyOk(c) ==
  /\ c \in calls /\ c.kind = "insertReply"
  /\ calls' = (calls \ {c}) \cup {[kind |-> "timer", inst |-> c.inst]}
  /\ detailReplies' = SetIfAlive(c, "appended", detailReplies)
  /\ replyLoading' = SetIfAlive(c, FALSE, replyLoading)
  /\ toastCount' = toastCount + 1
  /\ UNCHANGED <<pathname, instance, detailLoading, detailPost, loadingSubjects,
                 subjects, posted>>
  /\ UNCHANGED <<attemptVars, voteVars, exceptLeave>>

\* handleReply after the insert returned an error: toast
InsertReplyError(c) ==
  /\ c \in calls /\ c.kind = "insertReply"
  /\ calls' = calls \ {c}
  /\ replyLoading' = SetIfAlive(c, FALSE, replyLoading)
  /\ toastCount' = toastCount + 1
  /\ UNCHANGED <<pathname, instance, detailLoading, detailPost, detailReplies,
                 loadingSubjects, subjects, posted>>
  /\ UNCHANGED <<attemptVars, voteVars, exceptLeave>>

\* the setTimeout of handleReply fires: loadReplies(0, true) sends its query
ReconcileTimer(c) ==
  /\ c \in calls /\ c.kind = "timer"
  /\ calls' = (calls \ {c}) \cup {[kind |-> "reconcile", inst |-> c.inst]}
  /\ UNCHANGED <<pathname, instance, detailLoading, detailPost, detailReplies,
                 replyLoading, loadingSubjects, subjects, toastCount, posted>>
  /\ UNCHANGED <<attemptVars, voteVars, exceptLeave>>

\* the load of the dashboard's effect returns, with rows or with an error:
\* every setState of it is behind isMounted
LoadSubjectsDone(c, ok) ==
  /\ c \in calls /\ c.kind = "loadSubjects"
  /\ calls' = calls \ {c}
  /\ subjects' = IF ok /\ Alive(c) THEN "loaded" ELSE subjects
  /\ loadingSubjects' = IF Alive(c) THEN FALSE ELSE loadingSubjects
  /\ UNCHANGED <<pathname, instance, detailLoading, detailPost, detailReplies,
                 replyLoading, toastCount, posted>>
  /\ UNCHANGED <<attemptVars, voteVars, exceptLeave>>

\* a pending request or timer of a page completes
Completes(c) ==
  \/ LoadPostOk(c) \/ LoadPostError(c)
  \/ LoadFirstPageOk(c) \/ LoadFirstPageError(c)
  \/ InsertReplyOk(c) \/ InsertReplyError(c)
  \/ ReconcileTimer(c)
  \/ \E ok \in BOOLEAN : LoadSubjectsDone(c, ok)

\* no page of this part is open
InitNoLeave ==
  /\ pathname = "/community"
  /\ instance = 0
  /\ calls = {}
  /\ detailLoading = FALSE /\ detailPost = "none" /\ detailReplies = "none"
  /\ replyLoading = FALSE
  /\ loadingSubjects = FALSE /\ subjects = "fallback"
  /\ toastCount = 0
  /\ posted = 0

(* ---------------------- posting a reply -------------------------------- *)
\* what the steps of handleReply leave alone outside the reply list
exceptReplying == <<pointVars, profileVars, entryVars, deleteVars,
   failVars, launchVars, ownVars, listVars, leaveVars>>

\* handleReply up to its insert (signed in, text not empty)
SendReply ==
  /\ ~replySending
  /\ replyPosts < MaxReplyPosts
  /\ replySending' = TRUE
  /\ replyPosts' = replyPosts + 1
  /\ UNCHANGED <<insertedId, reconcileTimers>>
  /\ UNCHANGED replyVars
  /\ UNCHANGED <<attemptVars, voteVars, exceptReplying>>

\* the backend stores the row: it is the newest reply of the post
StoreReply ==
  /\ replySending /\ insertedId = 0
  /\ replyTotal' = replyTotal + 1
  /\ insertedId' = replyTotal + 1
  /\ UNCHANGED <<replySending, reconcileTimers, replyPosts>>
  /\ UNCHANGED <<replies, repliesPage, hasMoreReplies, repliesLoading, loadingMore,
                 replyReq, replyErrors, pageLog>>
  /\ UNCHANGED <<attemptVars, voteVars, exceptReplying>>

\* setReplies(prev => [...prev, newReplyData])
Appended(prev, id) == Append(prev, id)

\* handleReply after the insert returned the row: append it, start the timer
ReplyInserted ==
  /\ replySending /\ insertedId # 0
  /\ replies' = Appended(replies, insertedId)
  /\ reconcileTimers' = reconcileTimers + 1
  /\ replySending' = FALSE
  /\ insertedId' = 0
  /\ UNCHANGED replyPosts
  /\ UNCHANGED <<replyTotal, repliesPage, hasMoreReplies, repliesLoading, loadingMore,
                 replyReq, replyErrors, pageLog>>
  /\ UNCHANGED <<attemptVars, voteVars, exceptReplying>>

\* handleReply after the insert returned an error: toast, nothing stored
ReplyRejected ==
  /\ replySending /\ insertedId = 0
  /\ replySending' = FALSE
  /\ UNCHANGED <<insertedId, reconcileTimers, replyPosts>>
  /\ UNCHANGED replyVars
  /\ UNCHANGED <<attemptVars, voteVars, exceptReplying>>

\* the timer fires: loadReplies(0, true) up to its await
ReconcileFires ==
  /\ reconcileTimers > 0
  /\ reconcileTimers' = reconcileTimers - 1
  /\ repliesLoading' = TRUE
  /\ replyReq' = replyReq \cup {[page |-> 0, isInitialLoad |-> TRUE]}
  /\ UNCHANGED <<replySending, insertedId, replyPosts>>
  /\ UNCHANGED <<replyTotal, replies, repliesPage, hasMoreReplies, loadingMore,
                 replyErrors, pageLog>>
  /\ UNCHANGED <<attemptVars, voteVars, exceptReplying>>

\* no reply is being posted
InitNoPosting ==
  /\ replySending = FALSE
  /\ insertedId = 0
  /\ reconcileTimers = 0
  /\ replyPosts = 0

\* the state of everything outside the attempt and the vote pages
InitNoExt == InitNoPoints /\ InitNoReplies /\ InitNoProfile /\ InitNoEntry
             /\ InitNoDelete /\ InitNoFail /\ InitNoLaunch /\ InitNoOwn /\ InitNoList /\ InitNoLeave /\ InitNoPosting

(* ---------------------- the attempt as a state machine ---------------- *)
vars == <<route, locationState, testMounted, resultsMounted, exitTicks,
          questions, currentQuestionIndex, answers, loading, timeLeft,
          questionStartTime, timePerQuestion, now, TestResults, saveRequests,
          effectRuns, handoffs, submitLog, votes, nextVoteId, inflight,
          voteLoading, postsLoading, reload, display, started, events, reqLog,
          lastWriter, extVars>>

\* everything but the Test component's own state, as it is when a page opens
InitOutside ==
  /\ route = "test"
  /\ locationState = NoState
  /\ testMounted = TRUE
  /\ resultsMounted = FALSE
  /\ exitTicks = 0
  /\ now = 0
  /\ TestResults = <<>>
  /\ saveRequests = <<>>
  /\ effectRuns = 0
  /\ handoffs = <<>>
  /\ submitLog = <<>>
  /\ InitNoCommunity
  /\ InitNoExt

\* /test/:subject has just been opened by a signed-in user (useState defaults)
Init ==
  /\ InitOutside
  /\ questions = <<>>
  /\ currentQuestionIndex = 0
  /\ answers = <<>>
  /\ loading = TRUE
  /\ timeLeft = 0
  /\ questionStartTime = 0
  /\ timePerQuestion = <<>>

ResultsSteps ==
  \/ ExitComplete
  \/ AuthStateChange
  \/ ReenterResults
  \/ ResultsToDashboard

UserSteps ==
  \/ HandleAnswerChange
  \/ HandleNext
  \/ HandlePrevious
  \/ NavigatorClick
  \/ HandleKeyPress
  \/ SubmitClick
  \/ BackToSubjects

FetchSteps ==
  \/ FetchQuestionsOk
  \/ FetchQuestionsEmpty
  \/ FetchQuestionsError

\* the attempt under its countdown; Date.now() is not followed
Next == FetchSteps \/ Tick \/ UserSteps \/ ResultsSteps

Spec == Init /\ [][Next]_vars

\* the launch for subjects of every size, and the ways a submission can follow
NextLaunch ==
  \/ FetchQuestionsMany
  \/ FetchQuestionsEmpty
  \/ FetchQuestionsError
  \/ Tick
  \/ SubmitClick
  \/ BackToSubjects
  \/ ExitComplete

SpecLaunch == Init /\ [][NextLaunch]_vars

\* the attempt with its per-question clock, before the first countdown tick
NextClock == FetchSteps \/ Advance \/ UserSteps \/ ResultsSteps

SpecClock == Init /\ [][NextClock]_vars

\* the Test page up to the mount of the page that follows it
NextLive == FetchSteps \/ Tick \/ UserSteps \/ ExitComplete

\* the attempt under its countdown when the one-second interval keeps firing
SpecLive == Init /\ [][NextLive]_vars /\ WF_vars(Tick)

(* ---------------------- scoring on enumerated attempts ---------------- *)
\* the answers a user can have given to the questions qs
AnswerMaps(qs) ==
  UNION {[picked -> Options] : picked \in SUBSET {qs[k] : k \in 1..Len(qs)}}

\* an attempt of 1..MaxScored questions has loaded and the user has answered any
\* of its questions, moving with the navigator only, within the first second
InitScore ==
  /\ InitOutside
  /\ \E c \in 1..MaxScored :
       /\ questions \in Shuffles(c)
       /\ timeLeft = MathRound(c * SecondsPerQuestion, 1)
       /\ currentQuestionIndex \in 0..(c - 1)
  /\ answers \in AnswerMaps(questions)
  /\ loading = FALSE
  /\ questionStartTime = 0
  /\ timePerQuestion = <<>>

NextScore ==
  \/ NavigatorClick
  \/ SubmitClick
  \/ ResultsSteps

SpecScore == InitScore /\ [][NextScore]_vars

\* the same attempts, with /results also opened without a hand-off
NextEntry == NextScore \/ OpenResults

SpecEntry == InitScore /\ [][NextEntry]_vars

(* ---------------------- the community pages --------------------------- *)
\* no attempt is running
InitNoAttempt ==
  /\ route = "community"
  /\ locationState = NoState
  /\ testMounted = FALSE
  /\ resultsMounted = FALSE
  /\ exitTicks = 0
  /\ now = 0
  /\ TestResults = <<>>
  /\ saveRequests = <<>>
  /\ effectRuns = 0
  /\ handoffs = <<>>
  /\ submitLog = <<>>
  /\ questions = <<>>
  /\ currentQuestionIndex = 0
  /\ answers = <<>>
  /\ loading = TRUE
  /\ timeLeft = 0
  /\ questionStartTime = 0
  /\ timePerQuestion = <<>>

\* both pages have loaded on some table and show it
InitVote ==
  /\ InitNoAttempt
  /\ InitNoExt
  /\ votes \in InitialTables
  /\ nextVoteId = Cardinality(Posts) + 1
  /\ inflight = [page \in Pages |-> Idle]
  /\ voteLoading = [page \in Pages |-> FALSE]
  /\ postsLoading = [page \in Pages |-> FALSE]
  /\ reload = [page \in Pages |-> NoReload]
  /\ display = [page \in Pages |-> [post \in Shown(page) |-> Processed(votes, post)]]
  /\ started = 0
  /\ events = 0
  /\ reqLog = <<>>
  /\ lastWriter = "none"

NextVote ==
  \E page \in Pages :
    \/ StartVote(page)
    \/ LookupVote(page)
    \/ WriteVote(page)
    \/ ReloadQuery(page)
    \/ ReloadDeliver(page)

SpecVote == InitVote /\ [][NextVote]_vars

\* the vote requests, with the part_003 copy of the detail page loading the
\* post in between
NextOwn == NextVote \/ LoadPostLegacy

SpecOwn == InitVote /\ [][NextOwn]_vars

(* ---------------------- the post list --------------------------------- *)
\* CommunityPage has mounted: its effect has called loadPosts with the defaults
InitList ==
  /\ InitNoAttempt
  /\ InitNoCommunity
  /\ InitNoPoints /\ InitNoReplies /\ InitNoProfile /\ InitNoEntry
  /\ InitNoDelete /\ InitNoFail /\ InitNoLaunch /\ InitNoOwn /\ InitNoLeave
  /\ InitNoPosting
  /\ listPosts = <<>>
  /\ listLoading = TRUE
  /\ searchQuery = <<>>
  /\ subjectFilter = "all"
  /\ sortBy = "newest"
  /\ listReq = [sortBy |-> "newest", searchQuery |-> <<>>, subjectFilter |-> "all"]
  /\ listFetched = FALSE

NextList ==
  \/ \E text \in SearchTexts : SetSearchQuery(text)
  \/ \E subject \in SubjectChoices : SetSubjectFilter(subject)
  \/ \E sort \in SortChoices : SetSortBy(sort)
  \/ LoadPostsOk
  \/ LoadPostsError

SpecList == InitList /\ [][NextList]_vars

(* ---------------------- leaving a page -------------------------------- *)
\* the user is on the community list, no request is pending
InitLeave ==
  /\ InitNoAttempt
  /\ InitNoCommunity
  /\ InitNoExt

NextLeave ==
  \/ OpenPostDetail
  \/ OpenDashboard
  \/ OpenCommunity
  \/ SubmitReply
  \/ \E c \in calls : LoadPostOk(c)
  \/ \E c \in calls : LoadPostError(c)
  \/ \E c \in calls : LoadFirstPageOk(c)
  \/ \E c \in calls : LoadFirstPageError(c)
  \/ \E c \in calls : InsertReplyOk(c)
  \/ \E c \in calls : InsertReplyError(c)
  \/ \E c \in calls : ReconcileTimer(c)
  \/ \E c \in calls : \E ok \in BOOLEAN : LoadSubjectsDone(c, ok)

SpecLeave == InitLeave /\ [][NextLeave]_vars

\* the vote requests with a backend that can fail the lookup or the write
NextVoteFail ==
  \/ NextVote
  \/ \E page \in Pages :
       \/ LookupVoteFail(page)
       \/ WriteAfterLookupFail(page)
       \/ WriteVoteFail(page)

SpecVoteFail == InitVote /\ [][NextVoteFail]_vars

(* ---------------------- the community tables ------------------------- *)
\* freshly created community tables
InitPoints ==
  /\ InitNoAttempt
  /\ InitNoCommunity
  /\ InitNoExt

(* ---------------------- the reply list -------------------------------- *)
\* PostDetailPage has mounted on a post with 0..MaxReplies replies: its effect
\* has reset the pagination state and called loadReplies(0, true)
InitReplies ==
  /\ InitNoAttempt
  /\ InitNoCommunity
  /\ InitNoPoints
  /\ replyTotal \in 0..MaxReplies
  /\ replies = <<>>
  /\ repliesPage = 0
  /\ hasMoreReplies = TRUE
  /\ repliesLoading = TRUE
  /\ loadingMore = FALSE
  /\ replyReq = {[page |-> 0, isInitialLoad |-> TRUE]}
  /\ replyErrors = 0
  /\ pageLog = <<>>
  /\ InitNoProfile
  /\ InitNoEntry
  /\ InitNoDelete
  /\ InitNoFail
  /\ InitNoLaunch
  /\ InitNoOwn
  /\ InitNoList
  /\ InitNoLeave
  /\ InitNoPosting

NextReplies ==
  \/ LoadMoreReplies
  \/ LoadRepliesOk
  \/ LoadRepliesError

SpecReplies == InitReplies /\ [][NextReplies]_vars

(* ---------------------- the reply list while replies are posted ------- *)
NextReplying ==
  \/ LoadMoreReplies
  \/ LoadRepliesOk
  \/ LoadRepliesError
  \/ SendReply
  \/ StoreReply
  \/ ReplyInserted
  \/ ReplyRejected
  \/ ReconcileFires

SpecReplying == InitReplies /\ [][NextReplying]_vars

(* ---------------------- the profile page ------------------------------ *)
\* both tabs have loaded the profile, whose name was never changed or was
\* changed today
InitProfile ==
  /\ InitNoAttempt
  /\ InitNoCommunity
  /\ InitNoPoints
  /\ InitNoReplies
  /\ InitNoEntry
  /\ InitNoDelete
  /\ InitNoFail
  /\ InitNoLaunch
  /\ InitNoOwn
  /\ InitNoList
  /\ InitNoLeave
  /\ InitNoPosting
  /\ \E last \in {Undef, 0} :
       ProfileLoaded([display_name |-> "a", last_name_change |-> last])

\* a signed-in user with any number of rows in each table opens the
\* confirmation dialog of the profile page
InitDelete ==
  /\ InitNoAttempt
  /\ InitNoCommunity
  /\ InitNoPoints
  /\ InitNoReplies
  /\ InitNoProfile
  /\ InitNoEntry
  /\ InitNoFail
  /\ InitNoLaunch
  /\ InitNoOwn
  /\ InitNoList
  /\ InitNoLeave
  /\ InitNoPosting
  /\ ownedRows \in [UserTables -> 0..MaxOwned]
  /\ signedIn = TRUE /\ deleting = FALSE
  /\ deleteStep = 0 /\ deleteErrors = {} /\ deleteToasts = {}

NextDelete == StartDelete \/ DeleteRows \/ SignOutAndFinish

SpecDelete == InitDelete /\ [][NextDelete]_vars

NextProfile ==
  \/ \E tab \in Tabs : LoadProfile(tab) \/ EditName(tab) \/ HandleSave(tab)
  \/ AdvanceDays

SpecProfile == InitProfile /\ [][NextProfile]_vars

NextPoints ==
  \E user \in Users :
    \/ DbInsertPost(user)
    \/ DbInsertReply(user)
    \/ DbInsertVote(user)
    \/ DbUpdateVote(user)
    \/ DbDeleteVote(user)

SpecPoints == InitPoints /\ [][NextPoints]_vars

(* ====================================================================== *)
(* Properties                                                             *)
(* ====================================================================== *)

(* C1: every hand-off payload, whether the Submit button or the countdown *)
(* produced it, has score + wrongCount + skippedCount = total, no         *)
(* negative count, and total equal to the number of questions.            *)
C1_CountsAddUp ==
  \A i \in 1..Len(handoffs) :
    LET h == handoffs[i] IN
      /\ h.score + h.wrongCount + h.skippedCount = h.total
      /\ h.score >= 0 /\ h.wrongCount >= 0 /\ h.skippedCount >= 0
      /\ h.total = Len(h.results)
      /\ testMounted => h.total = Len(questions)

\* one attempt handed off by the button and by the countdown, the latter with
\* one correct answer and one question left open
C1_Witness ==
  \E i, j \in 1..Len(handoffs) :
    /\ submitLog[i].by = "manual"
    /\ submitLog[j].by = "timer"
    /\ handoffs[j].total = 2 /\ handoffs[j].score = 1 /\ handoffs[j].skippedCount = 1

(* C2: every persisted TestResults row carries the counts of a hand-off   *)
(* and score_percent is correct_count / total_questions * 100 rounded to  *)
(* the nearest integer, halves up; one of three correct gives 33.         *)
C2_ScorePercent ==
  \A k \in 1..Len(TestResults) :
    LET r == TestResults[k] IN
      /\ 2 * r.total_questions * r.score_percent
           <= 200 * r.correct_count + r.total_questions
      /\ 200 * r.correct_count + r.total_questions
           < 2 * r.total_questions * (r.score_percent + 1)
      /\ \E i \in 1..Len(handoffs) :
           /\ r.correct_count = handoffs[i].score
           /\ r.wrong_count = handoffs[i].wrongCount
           /\ r.skipped_count = handoffs[i].skippedCount
           /\ r.total_questions = handoffs[i].total
      /\ (r.total_questions = 3 /\ r.correct_count = 1) => r.score_percent = 33

\* the scenario of the specification: three questions, one answered correctly,
\* one wrongly, one not at all, persisted as 1 / 1 / 1 and 33 percent
C2_Witness ==
  \E k \in 1..Len(TestResults), i \in 1..Len(handoffs) :
    LET r == TestResults[k]
        items == handoffs[i].results IN
      /\ Len(items) = 3
      /\ Cardinality({n \in 1..3 : items[n].userAnswer = ""}) = 1
      /\ Cardinality({n \in 1..3 : items[n].userAnswer # ""
                        /\ items[n].userAnswer = CorrectAnswer(items[n].question)}) = 1
      /\ r.correct_count = handoffs[i].score /\ r.correct_count = 1
      /\ r.wrong_count = 1 /\ r.skipped_count = 1
      /\ r.total_questions = 3 /\ r.score_percent = 33

(* C3: an attempt is handed off to the Results page at most once: after   *)
(* a manual submit neither the countdown nor a second click submits again.*)
C3_SubmittedAtMostOnce == Len(handoffs) <= 1

(* C4: exactly one TestResults insert is issued per submitted attempt:    *)
(* once the Results page shows an attempt that was handed off once, it    *)
(* has issued one insert and never issues another.                        *)
C4_OneInsertPerAttempt ==
  (Len(handoffs) = 1 /\ ~testMounted) => Len(saveRequests) = 1

(* C5: while the interval keeps firing, a loaded attempt with questions   *)
(* does not stay on the Test page: unless the user submits or leaves,     *)
(* timeLeft reaches 0 and the countdown submits, whatever was answered;   *)
(* a countdown submission happens only at timeLeft = 0 on a loaded,       *)
(* non-empty question set, and the page is never shown at timeLeft 0.     *)
C5_CountdownSubmits ==
  /\ TestInteractive ~> (route # "test")
  /\ [](TestInteractive => timeLeft > 0)
  /\ [](\A i \in 1..Len(submitLog) :
          submitLog[i].by = "timer" => submitLog[i].timerAt = 0 /\ submitLog[i].loaded)

\* the countdown has submitted an attempt in which a question is unanswered
C5_Witness ==
  \E i \in 1..Len(submitLog) :
    /\ submitLog[i].by = "timer" /\ submitLog[i].timerAt = 0
    /\ handoffs[i].skippedCount > 0
    /\ Len(handoffs) = 1

(* C6: every step that changes the current question of the running       *)
(* attempt adds the seconds elapsed since the last navigation to the      *)
(* recorded time of the question being left and restarts the              *)
(* per-question clock.                                                    *)
C6_FlushOnEveryMove ==
  [][(testMounted' /\ currentQuestionIndex' # currentQuestionIndex)
       => /\ OrZero(ArrayGet(timePerQuestion', currentQuestionIndex))
               = OrZero(ArrayGet(timePerQuestion, currentQuestionIndex)) + Elapsed
          /\ questionStartTime' = now]_vars

(* C7: the votes table never holds two rows for one (post, user) pair.    *)
C7_OneRowPerPair ==
  \A post \in Posts, user \in Users : Cardinality(RowsOf(votes, post, user)) <= 1

\* a request that looked up no row inserted after the other page's request had
\* already inserted for the same pair
C7_Witness ==
  \E i \in 1..Len(reqLog) :
    /\ reqLog[i].write = "insert"
    /\ reqLog[i].before = "none"
    /\ reqLog[i].atWrite # "none"
    /\ Cardinality(RowsOf(votes, reqLog[i].post, CurrentUser)) = 1

\* the vote state a request of type requested makes of the state current
ToggledState(current, requested) ==
  IF current = "none" THEN requested
  ELSE IF current = requested THEN "none" ELSE requested

\* no other request wrote to the pair between the lookup and the write of request i
Isolated(i) ==
  \A j \in 1..Len(reqLog) :
    (j # i /\ reqLog[j].post = reqLog[i].post)
      => ~(reqLog[i].lookupAt < reqLog[j].writeAt /\ reqLog[j].writeAt < reqLog[i].writeAt)

\* no vote request is in progress and no reload is pending
Quiescent ==
  \A page \in Pages : inflight[page].pc = "idle" /\ reload[page].phase = "none"

(* C8: a vote request is one lookup followed by one write: insert when    *)
(* the pair has no row, delete when the row has the requested type,       *)
(* update when it has the other type; unless another request wrote in     *)
(* between, the pair moves NoVote -> requested, same -> NoVote,           *)
(* opposite -> requested; rows of other pairs are untouched.              *)
C8_VoteTransition ==
  /\ \A i \in 1..Len(reqLog) :
       LET r == reqLog[i] IN
         /\ r.found = r.before
         /\ r.lookupAt < r.writeAt
         /\ r.write = (IF r.before = "none" THEN "insert"
                       ELSE IF r.before = r.voteType THEN "delete" ELSE "update")
         /\ Isolated(i) => r.after = ToggledState(r.before, r.voteType)
         /\ r.othersKept
  /\ Quiescent => (Len(reqLog) = started /\ events = 2 * started)

\* an insert, an update in place and a delete have all been served
C8_Witness ==
  \E i, j, k \in 1..Len(reqLog) :
    /\ reqLog[i].write = "insert" /\ reqLog[i].after = "up"
    /\ reqLog[j].write = "update" /\ reqLog[j].before = "up" /\ reqLog[j].after = "down"
    /\ reqLog[k].write = "delete" /\ reqLog[k].before = "down" /\ reqLog[k].after = "none"

\* requests i and i+1 are two consecutive completed requests of one type for one
\* post: the second started after the first had completed
Consecutive(i) ==
  /\ reqLog[i].post = reqLog[i + 1].post
  /\ reqLog[i].voteType = reqLog[i + 1].voteType
  /\ Isolated(i)
  /\ reqLog[i + 1].lookupAt > reqLog[i].writeAt

(* C9 as stated: from every starting state, two consecutive completed     *)
(* requests of the same type leave the pair in NoVote.                    *)
C9_TwiceGivesNoVote ==
  \A i \in 1..(Len(reqLog) - 1) : Consecutive(i) => reqLog[i + 1].after = "none"

(* C9 amended: two consecutive completed requests of the same type leave  *)
(* the pair in NoVote when it started in NoVote or in the opposite type,  *)
(* and in the requested type when it started in that type.                *)
C9_TwiceRestores ==
  \A i \in 1..(Len(reqLog) - 1) :
    Consecutive(i) =>
      reqLog[i + 1].after = (IF reqLog[i].before = reqLog[i].voteType
                               THEN reqLog[i].voteType ELSE "none")

\* a vote was cast and then requested twice more, one request after the other:
\* the pair started in the requested type and is in that type again
C9_Witness ==
  \E i \in 1..(Len(reqLog) - 1) :
    /\ Consecutive(i)
    /\ reqLog[i].before = reqLog[i].voteType
    /\ reqLog[i + 1].after = reqLog[i].voteType
    /\ i > 1 /\ reqLog[i - 1].after = reqLog[i].before

PointsEarned(u) ==
  PostPoints * Cardinality({r \in NewRows(postRows, postRows') : r.author_id = u})
  + ReplyPoints * Cardinality({r \in NewRows(replyRows, replyRows') : r.author_id = u})
  + UpvotePoints * Cardinality({v \in NewRows(votes, votes') :
        /\ v.vote_type = "up"
        /\ \E p \in postRows : p.id = v.post_id /\ p.author_id = u})

(* C11: every statement changes each user's points by exactly 10 per     *)
(* post that user created in it, 5 per reply created and 2 per up vote   *)
(* row inserted on one of that user's posts; a down vote inserted, a     *)
(* vote row updated (also down to up) or deleted adds nothing.           *)
C11_PointsPerEvent ==
  [][\A u \in Users : OrZero(user_points'[u]) = OrZero(user_points[u]) + PointsEarned(u)]_vars

\* a user has 10 + 5 + 2 points for a post, a reply and an up vote received,
\* while a down vote is stored as well
C11_Witness ==
  /\ \E u \in Users : user_points[u] = 17
  /\ \E v \in votes : v.vote_type = "down"

(* C12: no statement on posts, replies or votes lowers a user's points;  *)
(* deleting an up vote or switching it to down deducts nothing.          *)
C12_PointsNeverDecrease ==
  [][\A u \in Users : OrZero(user_points'[u]) >= OrZero(user_points[u])]_vars

\* an author still has the 10 + 2 points of a post and an up vote although no up
\* vote is stored any more: it was deleted or switched to down
C12_Witness ==
  \E u \in Users :
    /\ user_points[u] = 12
    /\ \E p \in postRows : p.author_id = u
    /\ \A v \in votes : v.vote_type # "up"
    /\ dbOps >= 3

(* C13: when page 0 has been loaded and Load more has been pressed until *)
(* hasMore is false, the list in memory is the full reply set in         *)
(* created_at order, no reply twice and none missing; until then it is   *)
(* the part of that sequence loaded so far.                              *)
C13_PagesGiveAllReplies ==
  /\ (pageLog # <<>> /\ ~hasMoreReplies /\ replyReq = {}) => replies = StoredReplies
  /\ pageLog # <<>> =>
       replies = SubSeq(StoredReplies, 1, Min(replyTotal, (repliesPage + 1) * REPLIES_PER_PAGE))
  /\ \A i, j \in 1..Len(replies) : i < j => replies[i] < replies[j]

\* twelve replies have been loaded in three pages
C13_Witness ==
  /\ replyTotal = 12 /\ ~hasMoreReplies /\ replyReq = {}
  /\ Len(replies) = 12 /\ repliesPage = 2 /\ Len(pageLog) = 3

(* C14: after reply page p has been loaded, hasMore is                   *)
(* (p+1)*5 < totalCount and the page holds the replies at offsets        *)
(* 5p..5p+4 that exist; twelve replies come as 5, 5 and 2 with hasMore   *)
(* true, true, false.                                                    *)
C14_HasMore ==
  /\ \A k \in 1..Len(pageLog) :
       LET e == pageLog[k] IN
         /\ e.hasMore = ((e.page + 1) * 5 < replyTotal)
         /\ Len(e.items) = Min(5, replyTotal - 5 * e.page)
         /\ e.page = k - 1
  /\ (pageLog # <<>> /\ replyReq = {}) =>
       hasMoreReplies = ((repliesPage + 1) * 5 < replyTotal)
  /\ (replyTotal = 12 /\ Len(pageLog) = 3) =>
       /\ <<Len(pageLog[1].items), Len(pageLog[2].items), Len(pageLog[3].items)>> = <<5, 5, 2>>
       /\ <<pageLog[1].hasMore, pageLog[2].hasMore, pageLog[3].hasMore>> = <<TRUE, TRUE, FALSE>>

\* the scenario of twelve replies, after a failed call was repeated
C14_Witness ==
  /\ replyTotal = 12 /\ Len(pageLog) = 3 /\ replyErrors > 0
  /\ Len(pageLog[3].items) = 2 /\ ~pageLog[3].hasMore /\ ~hasMoreReplies

(* C15: the stored display name changes only in a step in which the      *)
(* stored last_name_change is null or at least 60 days old, and that     *)
(* step sets last_name_change to the current day.                        *)
C15_NameChangeWindow ==
  [][profileRow'.display_name # profileRow.display_name =>
       /\ (profileRow.last_name_change = Undef
             \/ day - profileRow.last_name_change >= 60)
       /\ profileRow'.last_name_change = day]_vars

(* C16: while a vote request started from a page is unresolved (its      *)
(* lookup or its write is outstanding) the vote controls of that page    *)
(* are disabled, so no second request can start from it.                 *)
C16_SingleFlight ==
  \A page \in Pages :
    inflight[page].pc # "idle" => (voteLoading[page] /\ ~CanVote(page))

\* a request of the listing waits for its write while the page is rendered
\* with its vote buttons disabled, and further requests could still be made
C16_Witness ==
  /\ inflight["list"].pc = "write"
  /\ voteLoading["list"] /\ ~postsLoading["list"]
  /\ started = 1

(* C17: whenever the Results page is entered on a location.state that    *)
(* lacks results, score or total, it issues no TestResults insert, shows *)
(* no review and ends on the dashboard; a review is only ever shown on a *)
(* complete payload.                                                     *)
C17_NoPayloadRedirects ==
  /\ \A k \in 1..Len(entryLog) :
       LET e == entryLog[k] IN
         (\E f \in {"results", "score", "total"} : f \notin e.present)
           => (e.inserts = 0 /\ ~e.review /\ e.route = "dashboard")
  /\ resultsMounted => {"results", "score", "total"} \subseteq DOMAIN locationState

\* after a saved attempt, /results was opened on a payload that lacks only its
\* total
C17_Witness ==
  /\ Len(TestResults) = 1
  /\ \E j \in 1..Len(entryLog) : entryLog[j].present = {"results", "score"}
  /\ route = "dashboard" /\ Len(saveRequests) = 1

(* C18: when a run of account deletion has ended and one of its five     *)
(* deletes failed, an error toast was shown, the 'Account Deleted' toast *)
(* was not, and the tables whose delete succeeded hold no row of the     *)
(* user.                                                                 *)
C18_FailedDeleteReported ==
  (deleteStep = DeleteDone /\ deleteErrors # {}) =>
    /\ "Error" \in deleteToasts
    /\ "Account Deleted" \notin deleteToasts
    /\ \A i \in 1..Len(DeleteOrder) :
         DeleteOrder[i] \notin deleteErrors => ownedRows[DeleteOrder[i]] = 0

(* C19: every vote request whose lookup or write failed at the backend   *)
(* left the stored vote of the user on the post as it was and showed an  *)
(* error toast.                                                          *)
C19_FailedVoteKeepsState ==
  \A k \in 1..Len(failLog) :
    /\ failLog[k].after = failLog[k].atWrite
    /\ failLog[k].toasts # {}

C25_IndexInBounds ==
  /\ [](TestRendered =>
          (0 <= currentQuestionIndex /\ currentQuestionIndex < Len(questions)))
  /\ [][/\ (HandleNext /\ currentQuestionIndex = Len(questions) - 1)
            => UNCHANGED <<currentQuestionIndex, answers, timePerQuestion>>
        /\ (HandlePrevious /\ currentQuestionIndex = 0)
            => UNCHANGED <<currentQuestionIndex, answers, timePerQuestion>>]_vars

\* the user has gone to the last of two questions by Next, half a second or
\* more after the start, and the page stands there
C25_Witness ==
  /\ TestInteractive
  /\ Len(questions) = 2 /\ currentQuestionIndex = 1
  /\ Len(timePerQuestion) = 1 /\ timePerQuestion[1] >= 1
  /\ now > questionStartTime

(* C22: when the select of fetchQuestions returns c >= 1 rows, the       *)
(* attempt shown has exactly min(20, c) questions, pairwise distinct and *)
(* all among the c rows, and starts with timeLeft = 63 * min(20, c);     *)
(* when it returns no row, no attempt is shown, nothing is ever handed   *)
(* to the Results page and the route is the dashboard.                   *)
C22_LaunchSize ==
  /\ [](TestRendered =>
          /\ matching >= 1
          /\ Len(questions) = Min(20, matching)
          /\ \A i, j \in 1..Len(questions) : i # j => questions[i] # questions[j]
          /\ \A i \in 1..Len(questions) : questions[i] \in 1..matching)
  /\ [](matching = 0 =>
          /\ ~TestRendered /\ questions = <<>>
          /\ handoffs = <<>> /\ TestResults = <<>>
          /\ route = "dashboard")
  /\ [][(loading /\ ~loading' /\ questions' # <<>>)
          => timeLeft' = 63 * Min(20, matching')]_vars

\* a subject with 22 rows was launched: 20 questions and 1260 seconds
C22_Witness ==
  /\ TestRendered /\ matching = 22
  /\ Len(questions) = 20 /\ timeLeft = 1260

(* C27: every timePerQuestion handed to the Results page, and every      *)
(* time_per_question persisted, has one entry per question of the        *)
(* attempt: its length is total and no position is undefined.            *)
C27_OneTimePerQuestion ==
  /\ \A i \in 1..Len(handoffs) :
       /\ Len(handoffs[i].timePerQuestion) = handoffs[i].total
       /\ \A k \in 1..Len(handoffs[i].timePerQuestion) :
            handoffs[i].timePerQuestion[k] # Undef
  /\ \A i \in 1..Len(TestResults) :
       /\ Len(TestResults[i].time_per_question) = TestResults[i].total_questions
       /\ \A k \in 1..Len(TestResults[i].time_per_question) :
            TestResults[i].time_per_question[k] # Undef

\* the sum of the entries of a timePerQuestion array, holes counting 0
RECURSIVE SumTimes(_)
SumTimes(times) ==
  IF times = <<>> THEN 0
  ELSE OrZero(times[1]) + SumTimes(Tail(times))

(* C28: for every submission of a loaded attempt, the entries of the     *)
(* timePerQuestion handed over add up to the whole seconds between the   *)
(* start of the attempt and the submission (the elapsed time rounded     *)
(* down or up to a second).                                              *)
C28_TimesAddUp ==
  \A i \in 1..Len(handoffs) :
    submitLog[i].loaded =>
      LET elapsed == submitLog[i].at - startedAt
          total   == SumTimes(handoffs[i].timePerQuestion)
      IN  /\ total >= elapsed \div TicksPerSecond
          /\ total <= (elapsed + TicksPerSecond - 1) \div TicksPerSecond

(* C24: whenever the listing or a detail view renders freshly loaded     *)
(* posts, the own vote it shows for a post is the vote_type of the       *)
(* current user's row among the loaded votes, and none when that user    *)
(* has no row.                                                           *)
C24_OwnVoteShown ==
  [][/\ \A page \in Pages :
          display'[page] # display[page] =>
            \A post \in Shown(page) :
              display'[page][post].user_vote =
                PairState(reload[page].rows, post, CurrentUser)
     /\ legacyPost' # legacyPost =>
          legacyPost'.user_vote = PairState(votes, DetailPost, CurrentUser)]_vars

\* the points user u holds for up votes: what is stored beyond 10 per post and
\* 5 per reply of u (posts and replies are never removed here)
UpVotePoints(u) ==
  OrZero(user_points[u])
    - PostPoints * Cardinality({p \in postRows : p.author_id = u})
    - ReplyPoints * Cardinality({r \in replyRows : r.author_id = u})

(* C29: the points an author holds for up votes never exceed 2 for every *)
(* (voter, post) pair that has up-voted one of the author's posts.       *)
C29_TwoPointsPerVoter ==
  \A u \in Users :
    UpVotePoints(u) <=
      2 * Cardinality({pair \in upVoters :
                         \E p \in postRows : p.id = pair[2] /\ p.author_id = u})

(* C30: once account deletion has shown 'Account Deleted', the user owns *)
(* no row in profiles, user_points, posts, replies, votes or             *)
(* TestResults.                                                          *)
C30_NothingLeftAfterDelete ==
  (deleteStep = DeleteDone /\ "Account Deleted" \in deleteToasts) =>
    \A table \in {"profiles", "user_points", "posts", "replies", "votes",
                   "TestResults"} : ownedRows[table] = 0

\* C21: whenever the community page shows its list, the list is the stored
\* posts filtered by the search text (case-insensitive, over title and
\* content) and by the subject filter, in the order of the chosen sort: a
\* change of the search text, the filter or the sort shows in the list
\* without any other action of the user (a list left over from a failed
\* load is not judged)
C21_ListReflectsControls ==
  (~listLoading /\ listFetched) => listPosts = Listing(sortBy, searchQuery, subjectFilter)

\* C23: when a request or timer completes whose page component is no longer
\* on screen, nothing the user sees changes: not the route, not the state of
\* the page now shown, and no toast appears
VisibleVars ==
  <<pathname, toastCount, detailLoading, detailPost, detailReplies, replyLoading,
    loadingSubjects, subjects>>

C23_LateResponsesSilent ==
  [][\A c \in calls : (~Alive(c) /\ Completes(c)) => UNCHANGED VisibleVars]_vars

\* C26: the reply list in memory never holds the same reply twice and is in
\* the order of created_at (the order of the ids), whatever the order in
\* which a posted reply is appended, further pages arrive and the re-fetch
\* of the first page arrives
C26_RepliesDistinctAndOrdered ==
  \A i, j \in 1..Len(replies) : i < j => replies[i] < replies[j]

====
